---- MODULE Spec2Model ----
(***************************************************************************)
(* School uniform grader: the image-statistics grading engine              *)
(* (frontend/src/services/gradingService.js), the letter-grade             *)
(* classifiers of the reporting service and of the SQL schema, and the     *)
(* grade-saving pipeline with the grading_breakdown trigger.               *)
(*                                                                         *)
(* Numbers.  JavaScript numbers are IEEE doubles.  Pixel sums and counts   *)
(* are small integers, so quotients such as r / pixelCount are modelled as *)
(* exact rationals (numerator, denominator): a correctly rounded quotient  *)
(* of two small integers compares with a short decimal literal exactly as  *)
(* the rational does, and Math.round of it is the rational's round half    *)
(* up.  The weighted sum of calculateFinalGrade multiplies by 0.2 and 0.15,*)
(* which are not doubles; there the double arithmetic is modelled bit for  *)
(* bit (see Dbl below).  SQL NUMERIC(5,2) values are held in hundredths.   *)
(***************************************************************************)
EXTENDS Integers, Sequences, FiniteSets, TLC

\* Greatest image height explored.  Images are one pixel wide: every region
\* the engine samples spans all columns, so a row stands for its pixels.
MaxH == 7

----------------------------------------------------------------------------
(* Images *)

Pixel(r, g, b) == [r |-> r, g |-> g, b |-> b]

Black == Pixel(0, 0, 0)
Gray  == Pixel(150, 150, 150)
Dim   == Pixel(110, 110, 110)
White == Pixel(255, 255, 255)
Red   == Pixel(255, 0, 0)

\* Pixel colours of the explored images (r + g + b is a multiple of 3 in
\* each, so every per-pixel brightness is an exact double).
Palette == {Black, Dim, Gray, White, Red}

\* The decoded images of height h: rows 1..h, top to bottom.
ImagesOfHeight(h) == [1..h -> Palette]

\* A photo of n rows of one colour.
Plain(n, colour) == [i \in 1..n |-> colour]

\* What analyzeUniform is given: a data URL the browser decodes to an image,
\* or one it cannot decode.
Readable(img) == [readable |-> TRUE, img |-> img]

Unreadable == [readable |-> FALSE, img |-> <<>>]

Height(img) == Len(img)

----------------------------------------------------------------------------
(* Arithmetic helpers *)

Abs(x) == IF x < 0 THEN -x ELSE x

Max(a, b) == IF a > b THEN a ELSE b

Min(a, b) == IF a < b THEN a ELSE b

\* Math.round(n / d) for n >= 0, d > 0: nearest integer, ties upward.
Round(n, d) == (2 * n + d) \div (2 * d)

RECURSIVE SumSeq(_)
SumSeq(s) == IF s = <<>> THEN 0 ELSE Head(s) + SumSeq(Tail(s))

\* Number of elements of data whose r + g + b is below lim.
RECURSIVE CountBelow(_, _)
CountBelow(data, lim) ==
    IF data = <<>> THEN 0
    ELSE (IF Head(data).r + Head(data).g + Head(data).b < lim THEN 1 ELSE 0)
         + CountBelow(Tail(data), lim)

RECURSIVE CountAbove(_, _)
CountAbove(data, lim) ==
    IF data = <<>> THEN 0
    ELSE (IF Head(data).r + Head(data).g + Head(data).b > lim THEN 1 ELSE 0)
         + CountAbove(Tail(data), lim)

\* Sum of r + g + b over data (three times the summed brightness).
RECURSIVE Sum3(_)
Sum3(data) ==
    IF data = <<>> THEN 0
    ELSE Head(data).r + Head(data).g + Head(data).b + Sum3(Tail(data))

----------------------------------------------------------------------------
(* Canvas *)

\* ctx.getImageData(0, sy, img.width, sh) on a canvas holding img; sy and sh
\* are already converted to long.  A zero height raises IndexSizeError
\* (threw); rows outside the canvas read as transparent black.
getImageData(img, sy, sh) ==
    IF sh = 0 THEN [threw |-> TRUE, data |-> <<>>]
    ELSE [threw |-> FALSE,
          data  |-> [i \in 1..sh |->
                       IF sy + i \in 1..Height(img) THEN img[sy + i] ELSE Black]]

----------------------------------------------------------------------------
(* PixelStatistics *)

\* Pixels counted as white above brightness 100 in the place of 200.
calculateImageStatsWhiteAbove100(data) ==
    LET pixelCount == Len(data)
    IN  [avgRed        |-> Round(SumSeq([i \in 1..pixelCount |-> data[i].r]), pixelCount),
         avgGreen      |-> Round(SumSeq([i \in 1..pixelCount |-> data[i].g]), pixelCount),
         avgBlue       |-> Round(SumSeq([i \in 1..pixelCount |-> data[i].b]), pixelCount),
         avgBrightness |-> Round(Sum3(data), 3 * pixelCount),
         darkPixels    |-> CountBelow(data, 300),
         whitePixels   |-> CountAbove(data, 300),
         pixelCount    |-> pixelCount]

\* Ratios are kept as counts over pixelCount.
calculateImageStats(data) ==
    LET pixelCount == Len(data)
    IN  [avgRed        |-> Round(SumSeq([i \in 1..pixelCount |-> data[i].r]), pixelCount),
         avgGreen      |-> Round(SumSeq([i \in 1..pixelCount |-> data[i].g]), pixelCount),
         avgBlue       |-> Round(SumSeq([i \in 1..pixelCount |-> data[i].b]), pixelCount),
         avgBrightness |-> Round(Sum3(data), 3 * pixelCount),
         darkPixels    |-> CountBelow(data, 300),
         whitePixels   |-> CountAbove(data, 600),
         pixelCount    |-> pixelCount]

colorVariation(stats) ==
    Abs(stats.avgRed - stats.avgGreen) + Abs(stats.avgGreen - stats.avgBlue)

----------------------------------------------------------------------------
(* ComponentScorer *)

\* Math.max(0, Math.min(100, score))
Clamp(score) == Max(0, Min(100, score))

\* A scorer's outcome: a score, or the exception of its getImageData call.
Returned(score) == [threw |-> FALSE, score |-> score]

Thrown == [threw |-> TRUE, score |-> 0]

\* The statistics of a sampled region the rules read: three times the summed
\* brightness, the number of pixels with brightness below 100 * lim3 / 300,
\* and the number of pixels.
RegionOf(data, lim3) ==
    [bright3 |-> Sum3(data), dark |-> CountBelow(data, lim3), pixels |-> Len(data)]

\* The deductions added to the score instead of taken from it, unclamped.
ShirtRulesAdding(avgBrightness, variation, darkPixels, whitePixels, pixelCount) ==
    100
    + (IF avgBrightness < 80 THEN 20
       ELSE IF avgBrightness > 220 THEN 10 ELSE 0)
    + (IF variation > 100 THEN 15
       ELSE IF variation > 50 THEN 5 ELSE 0)
    + (IF darkPixels * 100 > 40 * pixelCount THEN 20
       ELSE IF darkPixels * 100 > 25 * pixelCount THEN 10 ELSE 0)
    + (IF whitePixels * 100 < 5 * pixelCount THEN 15 ELSE 0)

ShirtRules(avgBrightness, variation, darkPixels, whitePixels, pixelCount) ==
    Clamp(100
          - (IF avgBrightness < 80 THEN 20
             ELSE IF avgBrightness > 220 THEN 10 ELSE 0)
          - (IF variation > 100 THEN 15
             ELSE IF variation > 50 THEN 5 ELSE 0)
          - (IF darkPixels * 100 > 40 * pixelCount THEN 20
             ELSE IF darkPixels * 100 > 25 * pixelCount THEN 10 ELSE 0)
          - (IF whitePixels * 100 < 5 * pixelCount THEN 15 ELSE 0))

\* The dark and the white pixel counts taken for one another.
scoreShirtSwapped(stats, img) ==
    Returned(ShirtRules(stats.avgBrightness, colorVariation(stats),
                        stats.whitePixels, stats.darkPixels, stats.pixelCount))

scoreShirt(stats, img) ==
    Returned(ShirtRules(stats.avgBrightness, colorVariation(stats),
                        stats.darkPixels, stats.whitePixels, stats.pixelCount))

\* The colour variation compared with 100 in the place of 80.
PantsRulesVariation100(variation, lower) ==
    Clamp(100
          - (IF lower.bright3 < 150 * lower.pixels \/ lower.bright3 > 480 * lower.pixels
             THEN 25
             ELSE IF lower.bright3 < 180 * lower.pixels \/ lower.bright3 > 450 * lower.pixels
             THEN 10
             ELSE 0)
          - (IF variation > 100 THEN 15 ELSE 0)
          - (IF lower.dark * 10 > 5 * lower.pixels THEN 15
             ELSE IF lower.dark * 10 > 3 * lower.pixels THEN 8 ELSE 0))

\* lowerBrightness is lower.bright3 / (3 * lower.pixels), lowerDarkRatio is
\* lower.dark / lower.pixels.
PantsRules(variation, lower) ==
    Clamp(100
          - (IF lower.bright3 < 150 * lower.pixels \/ lower.bright3 > 480 * lower.pixels
             THEN 25
             ELSE IF lower.bright3 < 180 * lower.pixels \/ lower.bright3 > 450 * lower.pixels
             THEN 10
             ELSE 0)
          - (IF variation > 80 THEN 15 ELSE 0)
          - (IF lower.dark * 10 > 5 * lower.pixels THEN 15
             ELSE IF lower.dark * 10 > 3 * lower.pixels THEN 8 ELSE 0))

PantsOn(stats, lowerHalf) ==
    IF lowerHalf.threw THEN Thrown
    ELSE Returned(PantsRules(colorVariation(stats), RegionOf(lowerHalf.data, 300)))

\* The rows a getImageData call reads: sy is the first row, counted from 0,
\* and sh the number of rows, both as the long values the canvas receives.
Read(sy, sh) == [called |-> TRUE, sy |-> sy, sh |-> sh]

NoRead == [called |-> FALSE, sy |-> 0, sh |-> 0]

\* lowerHalf is getImageData(0, img.height / 2, img.width, img.height / 2):
\* both arguments are converted to long, i.e. truncated.
lowerHalfRead(img) == Read(Height(img) \div 2, Height(img) \div 2)

scorePants(stats, img) ==
    PantsOn(stats, getImageData(img, lowerHalfRead(img).sy, lowerHalfRead(img).sh))

ShoesRules(avgBrightness, bottom) ==
    Clamp(100
          - (IF bottom.bright3 < 120 * bottom.pixels \/ bottom.bright3 > 540 * bottom.pixels
             THEN 30
             ELSE IF bottom.bright3 < 150 * bottom.pixels \/ bottom.bright3 > 480 * bottom.pixels
             THEN 15
             ELSE 0)
          - (IF bottom.dark * 100 < 20 * bottom.pixels THEN 25
             ELSE IF bottom.dark * 100 < 35 * bottom.pixels THEN 10 ELSE 0)
          - (IF avgBrightness < 70 THEN 10 ELSE 0))

\* The bottom strip counting a pixel as dark below brightness 100.
ShoesOnDarkBelow100(stats, bottomHalf) ==
    IF bottomHalf.threw THEN Thrown
    ELSE Returned(ShoesRules(stats.avgBrightness, RegionOf(bottomHalf.data, 300)))

\* The bottom strip counts a pixel as dark below brightness 120.
ShoesOn(stats, bottomHalf) ==
    IF bottomHalf.threw THEN Thrown
    ELSE Returned(ShoesRules(stats.avgBrightness, RegionOf(bottomHalf.data, 360)))

\* Math.floor(img.height * 0.15), and Math.floor(img.height * 0.3) below: for
\* every height under 200 the floor of the double product is the floor of the
\* exact product.
bottomHeightOf(img) == (Height(img) * 15) \div 100

bottomHalfRead(img) == Read(Height(img) - bottomHeightOf(img), bottomHeightOf(img))

scoreShoes(stats, img) ==
    ShoesOn(stats, getImageData(img, bottomHalfRead(img).sy, bottomHalfRead(img).sh))

GroomingRules(variation, top) ==
    Clamp(100
          - (IF top.bright3 < 270 * top.pixels THEN 20
             ELSE IF top.bright3 > 690 * top.pixels THEN 10 ELSE 0)
          - (IF top.dark * 100 > 40 * top.pixels THEN 25
             ELSE IF top.dark * 100 > 25 * top.pixels THEN 10 ELSE 0)
          - (IF variation > 120 THEN 15 ELSE 0))

\* The top strip counting a pixel as dark below brightness 100.
GroomingOnDarkBelow100(stats, topHalf) ==
    IF topHalf.threw THEN Thrown
    ELSE Returned(GroomingRules(colorVariation(stats), RegionOf(topHalf.data, 300)))

\* The top strip counts a pixel as dark below brightness 80.
GroomingOn(stats, topHalf) ==
    IF topHalf.threw THEN Thrown
    ELSE Returned(GroomingRules(colorVariation(stats), RegionOf(topHalf.data, 240)))

topHeightOf(img) == (Height(img) * 3) \div 10

topHalfRead(img) == Read(0, topHeightOf(img))

scoreGrooming(stats, img) ==
    GroomingOn(stats, getImageData(img, topHalfRead(img).sy, topHalfRead(img).sh))

\* The dark-ratio deductions added up instead of the first that applies.
CleanlinessRulesDarkAddUp(avgBrightness, variation, darkPixels, whitePixels, pixelCount) ==
    Clamp(100
          - (IF avgBrightness < 100 THEN 25
             ELSE IF avgBrightness < 120 THEN 10 ELSE 0)
          - (IF darkPixels * 100 > 45 * pixelCount THEN 25 ELSE 0)
          - (IF darkPixels * 100 > 35 * pixelCount THEN 15 ELSE 0)
          - (IF darkPixels * 100 > 25 * pixelCount THEN 8 ELSE 0)
          - (IF whitePixels * 100 < 10 * pixelCount THEN 15
             ELSE IF whitePixels * 100 < 15 * pixelCount THEN 5 ELSE 0)
          - (IF variation < 15 THEN 10 ELSE 0))

CleanlinessRules(avgBrightness, variation, darkPixels, whitePixels, pixelCount) ==
    Clamp(100
          - (IF avgBrightness < 100 THEN 25
             ELSE IF avgBrightness < 120 THEN 10 ELSE 0)
          - (IF darkPixels * 100 > 45 * pixelCount THEN 25
             ELSE IF darkPixels * 100 > 35 * pixelCount THEN 15
             ELSE IF darkPixels * 100 > 25 * pixelCount THEN 8 ELSE 0)
          - (IF whitePixels * 100 < 10 * pixelCount THEN 15
             ELSE IF whitePixels * 100 < 15 * pixelCount THEN 5 ELSE 0)
          - (IF variation < 15 THEN 10 ELSE 0))

scoreCleanliness(stats, img) ==
    Returned(CleanlinessRules(stats.avgBrightness, colorVariation(stats),
                              stats.darkPixels, stats.whitePixels, stats.pixelCount))

Components == {"shirt", "pant", "shoes", "grooming", "cleanliness"}

NoScores == [c \in Components |-> 0]

ScoresOf(shirt, pant, shoes, groom, clean) ==
    IF shirt.threw \/ pant.threw \/ shoes.threw \/ groom.threw \/ clean.threw
    THEN [threw |-> TRUE, scores |-> NoScores]
    ELSE [threw  |-> FALSE,
          scores |-> [shirt       |-> shirt.score,
                      pant        |-> pant.score,
                      shoes       |-> shoes.score,
                      grooming    |-> groom.score,
                      cleanliness |-> clean.score]]

ScoreAll(stats, img) ==
    ScoresOf(scoreShirt(stats, img), scorePants(stats, img), scoreShoes(stats, img),
             scoreGrooming(stats, img), scoreCleanliness(stats, img))

AnalyzeData(imageData, img) ==
    IF imageData.threw THEN [threw |-> TRUE, scores |-> NoScores]
    ELSE ScoreAll(calculateImageStats(imageData.data), img)

\* The scores object, or the exception of the first getImageData call that
\* throws (the canvas-wide read, then the scorers in the order of the object
\* literal).
analyzeImageProperties(img) == AnalyzeData(getImageData(img, 0, Height(img)), img)

NoReads == [lowerHalf |-> NoRead, bottomHalf |-> NoRead, topHalf |-> NoRead]

\* The reads of the three scorers that sample a part of the image, in the
\* order they are called; a read of no rows throws, and no later scorer runs.
ReadsAfter(lower, bottom, top) ==
    [lowerHalf  |-> lower,
     bottomHalf |-> IF lower.sh = 0 THEN NoRead ELSE bottom,
     topHalf    |-> IF lower.sh = 0 \/ bottom.sh = 0 THEN NoRead ELSE top]

readsOf(img) == ReadsAfter(lowerHalfRead(img), bottomHalfRead(img), topHalfRead(img))

----------------------------------------------------------------------------
(* FeedbackMapper *)

getShirtFeedback(score) ==
    IF score >= 90 THEN "Shirt looks excellent. Clean, well-fitted, and properly worn."
    ELSE IF score >= 75 THEN "Shirt is good. Consider pressing out any wrinkles."
    ELSE IF score >= 60 THEN "Shirt needs attention. Ensure it's clean and properly ironed."
    ELSE IF score >= 45 THEN "Shirt needs improvement. Ensure proper fit and cleanliness."
    ELSE "Shirt does not meet standards. Replace or clean immediately."

getPantsFeedback(score) ==
    IF score >= 90 THEN "Pants are perfect. Neat, clean, and well-maintained."
    ELSE IF score >= 75 THEN "Pants look good. Minor adjustments may help."
    ELSE IF score >= 60 THEN "Pants need attention. Ensure they're clean and wrinkle-free."
    ELSE IF score >= 45 THEN "Pants need improvement. Ensure proper fit and cleanliness."
    ELSE "Pants do not meet standards. Replace or clean immediately."

getShoesFeedback(score) ==
    IF score >= 90 THEN "Shoes are excellent. Polished and well-maintained."
    ELSE IF score >= 75 THEN "Shoes look good. Consider polishing for better shine."
    ELSE IF score >= 60 THEN "Shoes need polishing. Ensure they're clean and shiny."
    ELSE IF score >= 45 THEN "Shoes need significant improvement. Polish and clean them."
    ELSE "Shoes do not meet standards. Replace or shine immediately."

\* The grooming tiers cut at 70 in the place of 75.
getGroomingFeedbackShifted(score) ==
    IF score >= 90 THEN "Grooming is excellent. Hair neat and well-groomed."
    ELSE IF score >= 70 THEN "Grooming looks good. Minor tidying recommended."
    ELSE IF score >= 60 THEN "Hair needs attention. Ensure it's neat and tidy."
    ELSE IF score >= 45 THEN "Hair needs significant grooming. Get a proper haircut."
    ELSE "Hair does not meet standards. Get groomed immediately."

getGroomingFeedback(score) ==
    IF score >= 90 THEN "Grooming is excellent. Hair neat and well-groomed."
    ELSE IF score >= 75 THEN "Grooming looks good. Minor tidying recommended."
    ELSE IF score >= 60 THEN "Hair needs attention. Ensure it's neat and tidy."
    ELSE IF score >= 45 THEN "Hair needs significant grooming. Get a proper haircut."
    ELSE "Hair does not meet standards. Get groomed immediately."

getCleanlinesFeedback(score) ==
    IF score >= 90 THEN "Overall cleanliness is excellent. Well-maintained uniform."
    ELSE IF score >= 75 THEN "Uniform is clean. Keep maintaining this standard."
    ELSE IF score >= 60 THEN "Uniform needs cleaning. Wash and maintain properly."
    ELSE IF score >= 45 THEN "Uniform is dirty. Wash immediately."
    ELSE "Uniform does not meet cleanliness standards. Major cleaning needed."

\* The messages of pants and shoes exchanged.
generateFeedbackSwapped(scores) ==
    [shirt       |-> getShirtFeedback(scores.shirt),
     pant        |-> getShoesFeedback(scores.shoes),
     shoes       |-> getPantsFeedback(scores.pant),
     grooming    |-> getGroomingFeedback(scores.grooming),
     cleanliness |-> getCleanlinesFeedback(scores.cleanliness)]

generateFeedback(scores) ==
    [shirt       |-> getShirtFeedback(scores.shirt),
     pant        |-> getPantsFeedback(scores.pant),
     shoes       |-> getShoesFeedback(scores.shoes),
     grooming    |-> getGroomingFeedback(scores.grooming),
     cleanliness |-> getCleanlinesFeedback(scores.cleanliness)]

----------------------------------------------------------------------------
(* Double arithmetic of the weighted sum *)

\* A double x with 0 <= x < 128 that lies within a few ulps of a multiple of
\* 1/20 is held as [n, e]: x = n/20 + e * u with u = 2^-55 / 5, so that 1/20
\* is 2^53 units.  The literals: 0.25 is exact; 0.2 is the double
\* (2^55 + 2) * u; 0.15 is the double (3 * 2^53 - 1) * u.
Dbl(n, e) == [n |-> n, e |-> e]

RECURSIVE Pow2(_)
Pow2(i) == IF i = 0 THEN 1 ELSE 2 * Pow2(i - 1)

\* The binade of x > 0: the greatest k in -3..6 with 2^k <= x.
Binade(n, e) ==
    LET AtLeast(t) == n > t \/ (n = t /\ e >= 0)
    IN  IF AtLeast(1280) THEN 6
        ELSE IF AtLeast(640) THEN 5
        ELSE IF AtLeast(320) THEN 4
        ELSE IF AtLeast(160) THEN 3
        ELSE IF AtLeast(80) THEN 2
        ELSE IF AtLeast(40) THEN 1
        ELSE IF AtLeast(20) THEN 0
        ELSE IF AtLeast(10) THEN -1
        ELSE IF AtLeast(5) THEN -2
        ELSE -3

\* 2^j mod 10 for j >= 1, by j mod 4.
Pow2Mod10(j) == CASE j % 4 = 0 -> 6 [] j % 4 = 1 -> 2 [] j % 4 = 2 -> 4 [] OTHER -> 8

\* r2 is the real modulo two ulps, in units.
RoundTo(n, e, ulp, r2) ==
    IF 2 * (r2 % ulp) < ulp THEN Dbl(n, e - (r2 % ulp))
    ELSE IF 2 * (r2 % ulp) > ulp THEN Dbl(n, e + ulp - (r2 % ulp))
    ELSE IF r2 >= ulp THEN Dbl(n, e + ulp - (r2 % ulp))
    ELSE Dbl(n, e - (r2 % ulp))

\* In the binade k one ulp is 2^(k-52) = 5 * 2^(k+3) units, and n * 2^53
\* modulo two ulps is 2^(k+3) * ((n * 2^(50-k)) mod 10).
RoundIn(n, e, k, g) ==
    RoundTo(n, e, 5 * g, (g * ((n * Pow2Mod10(50 - k)) % 10) + e) % (10 * g))

RoundInBinade(n, e, k) == RoundIn(n, e, k, Pow2(k + 3))

\* Round the real n/20 + e * u to the nearest double, ties to even.
DblRound(n, e) ==
    IF n = 0 THEN Dbl(0, 0) ELSE RoundInBinade(n, e, Binade(n, e))

\* score * w for an integer score and a weight literal w.
DblTimes(score, w) == DblRound(score * w.n, score * w.e)

DblPlus(x, y) == DblRound(x.n + y.n, x.e + y.e)

\* Math.floor in the place of Math.round.
MathFloor(x) ==
    IF x.n % 20 = 0 /\ x.e < 0 THEN x.n \div 20 - 1 ELSE x.n \div 20

\* Math.round(x): floor(x + 0.5) in exact arithmetic.
MathRound(x) ==
    IF (x.n + 10) % 20 = 0 /\ x.e < 0 THEN (x.n + 10) \div 20 - 1
    ELSE (x.n + 10) \div 20

----------------------------------------------------------------------------
(* GradeAggregator *)

weights == [shirt       |-> Dbl(5, 0),
            pant        |-> Dbl(5, 0),
            shoes       |-> Dbl(4, 2),
            grooming    |-> Dbl(3, -1),
            cleanliness |-> Dbl(3, -1)]

\* The cutoffs compared with > in the place of >=.
finalGradeOfStrict(finalScore) ==
    IF finalScore > 85 THEN "A"
    ELSE IF finalScore > 70 THEN "B"
    ELSE IF finalScore > 60 THEN "C"
    ELSE IF finalScore > 50 THEN "D"
    ELSE "F"

\* The letter of a final score, first match wins.
finalGradeOf(finalScore) ==
    IF finalScore >= 85 THEN "A"
    ELSE IF finalScore >= 70 THEN "B"
    ELSE IF finalScore >= 60 THEN "C"
    ELSE IF finalScore >= 50 THEN "D"
    ELSE "F"

\* The sum is evaluated left to right.
finalScoreOf(scores) ==
    MathRound(
      DblPlus(DblPlus(DblPlus(DblPlus(DblTimes(scores.shirt, weights.shirt),
                                      DblTimes(scores.pant, weights.pant)),
                              DblTimes(scores.shoes, weights.shoes)),
                      DblTimes(scores.grooming, weights.grooming)),
              DblTimes(scores.cleanliness, weights.cleanliness)))

FinalOf(finalScore) ==
    [finalScore |-> finalScore, finalGrade |-> finalGradeOf(finalScore)]

calculateFinalGrade(scores) == FinalOf(finalScoreOf(scores))

----------------------------------------------------------------------------
(* GradingEngine *)

GenericFeedback == "Please upload a clear photo of your uniform."

\* The default grade with the score and grade of a failure.
getDefaultGradeFailing ==
    [score     |-> 0,
     grade     |-> "F",
     breakdown |-> [c \in Components |-> 50],
     feedback  |-> [c \in Components |-> GenericFeedback]]

getDefaultGrade ==
    [score     |-> 50,
     grade     |-> "D",
     breakdown |-> [c \in Components |-> 50],
     feedback  |-> [c \in Components |-> GenericFeedback]]

\* The object the onload handler resolves the promise with.
Assemble(scores, feedback, final) ==
    [score     |-> final.finalScore,
     grade     |-> final.finalGrade,
     breakdown |-> scores,
     feedback  |-> feedback]

GradingResultOf(scores) ==
    Assemble(scores, generateFeedback(scores), calculateFinalGrade(scores))

NoResult ==
    [score     |-> 0,
     grade     |-> "",
     breakdown |-> NoScores,
     feedback  |-> [c \in Components |-> ""]]

VARIABLES
    pc,        \* where the invocation of analyzeUniform stands
    source,    \* its argument
    promise,   \* the promise it returned: "none", "pending" or "resolved"
    result,    \* the value the promise was resolved with
    uncaught,  \* an exception left the load handler
    reads,     \* the rows the scorers of the invocation read from their canvases
    fn,        \* the mapper, the aggregator and the classifiers applied to one set of scores
    sv,                 \* the running call of saveGradingResult
    grades,             \* the grades table, in insertion order
    grading_breakdown,  \* the grading_breakdown table, in insertion order
    storage,            \* the objects of the uniform-photos bucket
    calls,              \* two invocations of analyzeUniform in flight together
    auth,               \* the state of AuthProvider and of its pending handlers
    route,              \* the path the router is at
    rendered,           \* what the route's element has rendered
    ui                  \* the state of the PhotoUpload component and of its running handler

engineVars == <<pc, source, promise, result, uncaught, reads>>

saveVars == <<sv, grades, grading_breakdown, storage>>

\* What the engine, the pure functions and the save pipeline leave alone.
authVars == <<auth, route, rendered>>

otherVars == <<calls, authVars, ui>>

vars == <<pc, source, promise, result, uncaught, reads, fn, sv, grades, grading_breakdown, storage,
          calls, auth, route, rendered, ui>>

\* The classifiers of a raw score outside the engine.  A final_score column
\* is NUMERIC(5,2): it is held in hundredths.

\* getOverallStats, the letter of one grades row.
letterGrade(final_score) ==
    IF final_score >= 8500 THEN "A"
    ELSE IF final_score >= 7000 THEN "B"
    ELSE IF final_score >= 6000 THEN "C"
    ELSE IF final_score >= 5000 THEN "D"
    ELSE "F"

\* getOverallStats, the grade distribution of the rows gradesData.
RECURSIVE gradeCount(_)
gradeCount(gradesData) ==
    IF gradesData = <<>> THEN [l \in {"A", "B", "C", "D", "F"} |-> 0]
    ELSE LET rest == gradeCount(Tail(gradesData))
             l    == letterGrade(Head(gradesData).final_score)
         IN  [rest EXCEPT ![l] = @ + 1]

\* calculate_grade on a ten-point scale.
calculate_gradeTenPoint(score) ==
    IF score >= 9000 THEN "A"
    ELSE IF score >= 8000 THEN "B"
    ELSE IF score >= 7000 THEN "C"
    ELSE IF score >= 6000 THEN "D"
    ELSE "F"

\* The SQL function calculate_grade(score NUMERIC).
calculate_grade(score) ==
    IF score >= 8500 THEN "A"
    ELSE IF score >= 7000 THEN "B"
    ELSE IF score >= 6000 THEN "C"
    ELSE IF score >= 5000 THEN "D"
    ELSE "F"

\* Score sets the pure functions are applied to: four components drawn from
\* ScoreSamples, the fifth ranging over every score.
ScoreSamples == {0, 9, 50, 100}

NoFeedback == [c \in Components |-> ""]

NoFinal == [finalScore |-> 0, finalGrade |-> ""]

NoCount == [l \in {"A", "B", "C", "D", "F"} |-> 0]

\* No auth value, no element and no hook value yet.
NoAuthValue == [user |-> "", userType |-> "", loading |-> TRUE]

NoElement == [kind |-> "none", to |-> ""]

NoHook == [isAuthorized |-> FALSE, loading |-> TRUE, isStudent |-> FALSE,
           isAdmin |-> FALSE]

FnIdle ==
    [stage |-> "input", scores |-> NoScores, feedback |-> NoFeedback,
     final |-> NoFinal, gradeCount |-> NoCount, sqlGrade |-> "",
     requiredRole |-> "", authValue |-> NoAuthValue, element |-> NoElement,
     hook |-> NoHook]

----------------------------------------------------------------------------
(* Persistence: the tables, the trigger and saveGradingResult *)

\* Greatest number of uploaded photos, and so of grade rows, explored.
MaxGrades == 2

\* The students table: user u1 has a profile, user u2 has none.
students == {[id |-> "s1", user_id |-> "u1"]}

Users == {"u1", "u2"}

\* The results handed to the save step: the default grade and the results of
\* photos of one colour, seven rows high.
GradingResultOfPhoto(analysis) == GradingResultOf(analysis.scores)

GradingData ==
    {getDefaultGrade} \cup
    {GradingResultOfPhoto(analyzeImageProperties([i \in 1..7 |-> colour])) :
        colour \in {Black, White, Gray}}

\* parseFloat(x) || 0 for a number x.
parseFloatOr0(x) == x

\* A NUMERIC(5,2) value of an integer, in hundredths.
Numeric(x) == 100 * x

\* update_final_score: avg_score of the inserted breakdown row NEW_row.  The five
\* scores are whole numbers, so the quotient is exact in hundredths.
update_final_score_avg(NEW_row) ==
    (NEW_row.shirt_score + NEW_row.pant_score + NEW_row.shoes_score
     + NEW_row.grooming_score + NEW_row.cleanliness_score) \div 5

\* trg_update_final_score, AFTER INSERT ON grading_breakdown FOR EACH ROW:
\* the grades table after UPDATE grades SET ... WHERE id = NEW_row.grade_id.  Row
\* level security is disabled on every table, so the update reaches the row.
update_final_score(table, NEW_row) ==
    [i \in 1..Len(table) |->
        IF table[i].id = NEW_row.grade_id
        THEN [table[i] EXCEPT !.final_score = update_final_score_avg(NEW_row),
                              !.final_grade = calculate_grade(update_final_score_avg(NEW_row))]
        ELSE table[i]]

gradeRecord(id, userId, studentId, photoUrl, gradingData) ==
    [id          |-> id,
     user_id     |-> userId,
     student_id  |-> studentId,
     photo_url   |-> photoUrl,
     final_score |-> Numeric(parseFloatOr0(gradingData.score)),
     final_grade |-> IF gradingData.grade = "" THEN "F" ELSE gradingData.grade]

breakdownRecord(gradeId, gradingData) ==
    [grade_id             |-> gradeId,
     shirt_score          |-> Numeric(parseFloatOr0(gradingData.breakdown.shirt)),
     pant_score           |-> Numeric(parseFloatOr0(gradingData.breakdown.pant)),
     shoes_score          |-> Numeric(parseFloatOr0(gradingData.breakdown.shoes)),
     grooming_score       |-> Numeric(parseFloatOr0(gradingData.breakdown.grooming)),
     cleanliness_score    |-> Numeric(parseFloatOr0(gradingData.breakdown.cleanliness)),
     shirt_feedback       |-> gradingData.feedback.shirt,
     pant_feedback        |-> gradingData.feedback.pant,
     shoes_feedback       |-> gradingData.feedback.shoes,
     grooming_feedback    |-> gradingData.feedback.grooming,
     cleanliness_feedback |-> gradingData.feedback.cleanliness]

\* grading_breakdown.grade_id UNIQUE NOT NULL REFERENCES grades(id).
BreakdownAccepted(row) ==
    /\ \E i \in 1..Len(grades) : grades[i].id = row.grade_id
    /\ \A i \in 1..Len(grading_breakdown) : grading_breakdown[i].grade_id # row.grade_id

Failure(error) == [success |-> FALSE, gradeId |-> 0, message |-> "", error |-> error]

Saved(gradeId) ==
    [success |-> TRUE, gradeId |-> gradeId, message |-> "Grade saved successfully",
     error |-> ""]

\* The breakdown failure reported with the message of a complete save.
BreakdownIncompleteAsSaved(gradeId) ==
    [success |-> TRUE, gradeId |-> gradeId, message |-> "Grade saved successfully",
     error |-> ""]

BreakdownIncomplete(gradeId) ==
    [success |-> TRUE, gradeId |-> gradeId,
     message |-> "Grade created (breakdown incomplete)", error |-> ""]

NoReturn == [success |-> FALSE, gradeId |-> 0, message |-> "", error |-> ""]

\* A call of saveGradingResult: where it stands, its arguments and locals, what
\* it returned, and the collaborator calls it has made so far (ops).
SaveIdle ==
    [pc |-> "idle", userId |-> "", gradingData |-> NoResult, photoFile |-> "",
     studentId |-> "", photoUrl |-> "", gradeId |-> 0, ret |-> NoReturn, ops |-> <<>>]

SaveInit ==
    /\ sv = SaveIdle
    /\ grades = <<>>
    /\ grading_breakdown = <<>>
    /\ storage = {}

----------------------------------------------------------------------------
(* AuthProvider and ProtectedRoute *)

\* The admin_users table: user a1 is an administrator.
admin_users == {[id |-> "ad1", user_id |-> "a1"]}

\* The users a session can be of; "" stands for null throughout.
SessionUsers == Users \cup {"a1"}

\* The value useAuth hands to a component.
isAuthenticated(a) == a.user # ""

isStudent(a) == a.userType = "student"

isAdmin(a) == a.userType = "admin"

Spinner == [kind |-> "spinner", to |-> ""]

Navigate(to) == [kind |-> "navigate", to |-> to]

Element == [kind |-> "element", to |-> ""]

\* ProtectedRoute with the role of a student route not looked at.
ProtectedRouteAnyStudent(requiredRole, a) ==
    IF a.loading THEN Spinner
    ELSE IF ~isAuthenticated(a) THEN Navigate("/login")
    ELSE CASE requiredRole = "student" -> Element
           [] requiredRole = "admin" ->
                IF isAdmin(a) THEN Element
                ELSE IF isStudent(a) THEN Navigate("/dashboard")
                ELSE Navigate("/login")
           [] requiredRole = "authenticated" -> Element
           [] OTHER -> Element

\* ProtectedRoute({ element, requiredRole }) under the auth value a.
ProtectedRoute(requiredRole, a) ==
    IF a.loading THEN Spinner
    ELSE IF ~isAuthenticated(a) THEN Navigate("/login")
    ELSE CASE requiredRole = "student" ->
                IF isStudent(a) THEN Element
                ELSE IF isAdmin(a) THEN Navigate("/admin")
                ELSE Navigate("/login")
           [] requiredRole = "admin" ->
                IF isAdmin(a) THEN Element
                ELSE IF isStudent(a) THEN Navigate("/dashboard")
                ELSE Navigate("/login")
           [] requiredRole = "authenticated" -> Element
           [] OTHER -> Element

\* The default of the parameter: requiredRole = 'authenticated' when the
\* caller passes none.
requiredRoleOr(requiredRole) ==
    IF requiredRole = "undefined" THEN "authenticated" ELSE requiredRole

\* useProtectedRoute(requiredRole) under the auth value a.
useProtectedRoute(requiredRole, a) ==
    [isAuthorized |->
        IF ~isAuthenticated(a) THEN FALSE
        ELSE CASE requiredRole = "student" -> isStudent(a)
               [] requiredRole = "admin" -> isAdmin(a)
               [] requiredRole = "authenticated" -> TRUE
               [] OTHER -> FALSE,
     loading |-> a.loading,
     isStudent |-> isStudent(a),
     isAdmin |-> isAdmin(a)]

\* The routes of App: the role each protected path requires; /login is public.
StudentPaths == {"/onboarding", "/dashboard", "/upload-photo", "/grade-history"}

AdminPaths == {"/admin", "/admin/analytics"}

Paths == {"/login"} \cup StudentPaths \cup AdminPaths

requiredRoleOf(path) == IF path \in StudentPaths THEN "student" ELSE "admin"

\* What the route at path renders under the auth value a.
RouteElement(path, a) ==
    IF path = "/login" THEN Element ELSE ProtectedRoute(requiredRoleOf(path), a)

\* useState(null) four times, useState(true) for loading; initAuth has been
\* called and awaits getSession, no event handler is running; last is the
\* last auth event whose handler has started.
AuthMounted ==
    [user |-> "", userType |-> "", userData |-> "", loading |-> TRUE, error |-> "",
     init |-> "getSession", initUser |-> "", ev |-> "idle", evUser |-> "", last |-> "none"]

AuthInit ==
    /\ auth = AuthMounted
    /\ route = "/login"
    /\ rendered = RouteElement("/login", AuthMounted)

\* .from(table).select().eq('user_id', userId).single(): the row's id, or ""
\* when no row matches.
SingleRow(table, userId) ==
    IF \E row \in table : row.user_id = userId
    THEN (CHOOSE row \in table : row.user_id = userId).id
    ELSE ""

\* How an awaited query ends: answered by the table, answered with an error
\* (data null), or thrown.
Outcomes == {"answered", "failed", "threw"}

----------------------------------------------------------------------------
(* PhotoUpload *)

\* Greatest number of objects in the uniform-photos bucket when an upload
\* and grade flow starts.
MaxPhotos == 2

\* No public URL.
NoUrl == <<>>

\* gradingResult: null, or { ...gradingData, gradeId, photoUrl }.
NoGradingResult == [shown |-> FALSE, data |-> NoResult, gradeId |-> 0, photoUrl |-> NoUrl]

Shown(gradingData, gradeId, photoUrl) ==
    [shown |-> TRUE, data |-> gradingData, gradeId |-> gradeId, photoUrl |-> photoUrl]

\* The useState values of PhotoUpload after mounting, the locals of the
\* running handleUploadAndGrade (userId, photoUrl), where it stands (pc), the
\* number of stored objects when it started, and whether it navigated away.
UiMounted ==
    [pc |-> "idle", file |-> "", preview |-> Unreadable, loading |-> FALSE, error |-> "",
     step |-> "upload", gradingResult |-> NoGradingResult, userId |-> "", photoUrl |-> NoUrl,
     storedAtStart |-> 0, navigated |-> FALSE]

UiInit == ui = UiMounted

----------------------------------------------------------------------------
(* Initial states *)

\* An invocation of analyzeUniform that has not been made.
CallIdle ==
    [pc |-> "idle", source |-> Unreadable, promise |-> "none", result |-> NoResult,
     overlapped |-> FALSE]

PairInit == calls = [i \in 1..2 |-> CallIdle]

EngineInit ==
    /\ pc = "idle"
    /\ source = Unreadable
    /\ promise = "none"
    /\ result = NoResult
    /\ uncaught = FALSE
    /\ reads = NoReads

Init == EngineInit /\ fn = FnIdle /\ SaveInit /\ PairInit /\ AuthInit /\ UiInit

\* analyzeUniform(imageDataUrl): creates the image element, installs the two
\* handlers and returns the pending promise.
AnalyzeUniform(src) ==
    /\ pc = "idle"
    /\ pc' = "decoding"
    /\ source' = src
    /\ promise' = "pending"
    /\ UNCHANGED <<result, uncaught, reads, fn, saveVars, otherVars>>

\* img.onload: scores the image and resolves the promise.  An exception of
\* analyzeImageProperties leaves the handler before resolve is reached: no
\* try block encloses the handler, the promise stays pending.
ImgOnload ==
    /\ pc = "decoding"
    /\ source.readable
    /\ \E analysis \in {analyzeImageProperties(source.img)} :
           IF analysis.threw
           THEN /\ pc' = "scoring"
                /\ uncaught' = TRUE
                /\ UNCHANGED <<promise, result>>
           ELSE /\ pc' = "done"
                /\ promise' = "resolved"
                /\ result' = GradingResultOf(analysis.scores)
                /\ UNCHANGED uncaught
    /\ reads' = readsOf(source.img)
    /\ UNCHANGED <<source, fn, saveVars, otherVars>>

\* img.onerror: resolves the promise with the default grade.
ImgOnerror ==
    /\ pc = "decoding"
    /\ ~source.readable
    /\ pc' = "failed"
    /\ promise' = "resolved"
    /\ result' = getDefaultGrade
    /\ UNCHANGED <<source, uncaught, reads, fn, saveVars, otherVars>>

\* The caller has taken the result; the next invocation starts from scratch.
TakeResult ==
    /\ pc \in {"done", "failed"}
    /\ pc' = "idle"
    /\ source' = Unreadable
    /\ promise' = "none"
    /\ result' = NoResult
    /\ reads' = NoReads
    /\ UNCHANGED <<uncaught, fn, saveVars, otherVars>>

Next ==
    \/ pc = "idle" /\ \E h \in 1..MaxH : \E img \in ImagesOfHeight(h) :
                          AnalyzeUniform(Readable(img))
    \/ AnalyzeUniform(Unreadable)
    \/ ImgOnload
    \/ ImgOnerror
    \/ TakeResult

Spec == Init /\ [][Next]_vars

----------------------------------------------------------------------------
(* The engine on photos tall enough for every rule of the scorers to apply *)

Dusk == Pixel(135, 135, 135)

\* A photo of twenty rows in seven bands of one colour each: the top strip is
\* the bands of a and b, the lower half the bands of d, e, f and g, the bottom
\* strip the bands of f and g.
TallImage(a, b, c, d, e, f, g) ==
    Plain(4, a) \o Plain(2, b) \o Plain(4, c) \o Plain(4, d) \o Plain(3, e)
    \o Plain(2, f) \o Plain(1, g)

TallNext ==
    \/ pc = "idle" /\ \E a \in Palette, b \in Palette, c \in Palette, d \in Palette,
                         e \in Palette, f \in Palette, g \in Palette \cup {Dusk} :
                            AnalyzeUniform(Readable(TallImage(a, b, c, d, e, f, g)))
    \/ AnalyzeUniform(Unreadable)
    \/ ImgOnload
    \/ ImgOnerror
    \/ TakeResult

SpecTall == Init /\ [][TallNext]_vars

----------------------------------------------------------------------------
(* The mapper, the aggregator and the classifiers on their own *)

FnInit ==
    /\ EngineInit
    /\ SaveInit
    /\ PairInit
    /\ AuthInit
    /\ UiInit
    /\ \E base \in [Components -> ScoreSamples], c \in Components, v \in 0..100 :
          fn = [FnIdle EXCEPT !.scores = [base EXCEPT ![c] = v]]

FnGenerateFeedback ==
    /\ fn.stage = "input"
    /\ fn' = [fn EXCEPT !.stage = "feedback", !.feedback = generateFeedback(fn.scores)]
    /\ UNCHANGED <<engineVars, saveVars, otherVars>>

FnCalculateFinalGrade ==
    /\ fn.stage = "feedback"
    /\ fn' = [fn EXCEPT !.stage = "final", !.final = calculateFinalGrade(fn.scores)]
    /\ UNCHANGED <<engineVars, saveVars, otherVars>>

\* getOverallStats over a grades table holding the one final score.
FnGetOverallStats ==
    /\ fn.stage = "final"
    /\ fn' = [fn EXCEPT !.stage = "stats",
                        !.gradeCount = gradeCount(<<[final_score |-> 100 * fn.final.finalScore]>>)]
    /\ UNCHANGED <<engineVars, saveVars, otherVars>>

\* SELECT calculate_grade(final score).
FnCalculateGradeSql ==
    /\ fn.stage = "stats"
    /\ fn' = [fn EXCEPT !.stage = "sql",
                        !.sqlGrade = calculate_grade(100 * fn.final.finalScore)]
    /\ UNCHANGED <<engineVars, saveVars, otherVars>>

FnNext ==
    \/ FnGenerateFeedback
    \/ FnCalculateFinalGrade
    \/ FnGetOverallStats
    \/ FnCalculateGradeSql

SpecFn == FnInit /\ [][FnNext]_vars

\* The values requiredRole is given: the three the component documents, none,
\* and one it does not know.
RequiredRoles == {"student", "admin", "authenticated", "undefined", "teacher"}

\* The values useAuth can hand to a component.
AuthValues ==
    [user : SessionUsers \cup {""}, userType : {"", "student", "admin"},
     loading : BOOLEAN]

GuardInit ==
    /\ EngineInit
    /\ SaveInit
    /\ PairInit
    /\ AuthInit
    /\ UiInit
    /\ \E requiredRole \in RequiredRoles, a \in AuthValues :
          fn = [FnIdle EXCEPT !.requiredRole = requiredRole, !.authValue = a]

\* <ProtectedRoute element=... requiredRole=... /> is rendered.
FnProtectedRoute ==
    /\ fn.stage = "input"
    /\ fn' = [fn EXCEPT !.stage = "route",
                        !.element = ProtectedRoute(requiredRoleOr(fn.requiredRole),
                                                   fn.authValue)]
    /\ UNCHANGED <<engineVars, saveVars, otherVars>>

\* A component under the same provider calls useProtectedRoute(requiredRole).
FnUseProtectedRoute ==
    /\ fn.stage = "route"
    /\ fn' = [fn EXCEPT !.stage = "hook",
                        !.hook = useProtectedRoute(requiredRoleOr(fn.requiredRole),
                                                   fn.authValue)]
    /\ UNCHANGED <<engineVars, saveVars, otherVars>>

GuardNext ==
    \/ FnProtectedRoute
    \/ FnUseProtectedRoute

SpecGuard == GuardInit /\ [][GuardNext]_vars

----------------------------------------------------------------------------
(* saveGradingResult(userId, gradingData, photoFile) *)

Return(value) == [sv EXCEPT !.pc = "returned", !.ret = value]

\* The catch block with the exception thrown on instead of returned.
CatchRethrown(message) == [sv EXCEPT !.pc = "rejected"]

\* catch (err): return { success: false, error: err.message || ... }.
Catch(message) == Return(Failure(message))

\* The collaborator call op has been made and has ended as outcome; state is
\* the call after it.
Did(op, outcome, state) ==
    [state EXCEPT !.ops = Append(sv.ops, [op |-> op, outcome |-> outcome])]

\* The call up to its first await.  A missing argument is "" for userId and
\* photoFile and NoResult for gradingData.
SaveCall(userId, gradingData, photoFile) ==
    LET call == [SaveIdle EXCEPT !.userId = userId, !.gradingData = gradingData,
                                !.photoFile = photoFile]
    IN  IF userId = ""
          THEN [call EXCEPT !.pc = "returned",
                  !.ret = Failure("User ID is required. Please login again.")]
        ELSE IF gradingData = NoResult
          THEN [call EXCEPT !.pc = "returned",
                  !.ret = Failure("Grading data is required.")]
        ELSE IF photoFile = ""
          THEN [call EXCEPT !.pc = "returned",
                  !.ret = Failure("Photo file is required.")]
        ELSE [call EXCEPT !.pc = "lookup"]

\* saveGradingResult called on its own.
SaveGradingResult(userId, gradingData, photoFile) ==
    /\ sv.pc = "idle"
    /\ Cardinality(storage) < MaxGrades
    /\ sv' = SaveCall(userId, gradingData, photoFile)
    /\ UNCHANGED <<grades, grading_breakdown, storage, engineVars, fn, otherVars>>

\* STEP 1: students.select('id').eq('user_id', userId).single() and the code
\* up to the upload.  single() reports an error unless exactly one row matches.
\* A call that throws has not reached the store.
StudentLookup(outcome) ==
    /\ sv.pc = "lookup"
    /\ LET rows == {st \in students : st.user_id = sv.userId}
       IN  sv' = Did("lookup",
                     IF outcome = "answered" /\ rows = {} THEN "failed" ELSE outcome,
                     IF outcome = "threw" THEN Catch("Failed to fetch")
                     ELSE IF outcome = "failed" \/ rows = {}
                     THEN Return(Failure(
                            "Student profile not found. Please complete your onboarding first."))
                     ELSE [sv EXCEPT !.pc = "upload",
                                     !.studentId = (CHOOSE st \in rows : TRUE).id])
    /\ UNCHANGED <<grades, grading_breakdown, storage, engineVars, fn, otherVars>>

\* The object name userId/timestamp.extension; the timestamp is the number of
\* objects stored so far.
FileName == <<sv.userId, Cardinality(storage) + 1>>

\* STEP 2 and STEP 3: storage.upload, getPublicUrl and the code up to the
\* grade insert.
UploadPhoto(outcome) ==
    /\ sv.pc = "upload"
    /\ IF outcome = "answered"
       THEN /\ storage' = storage \cup {FileName}
            /\ sv' = Did("upload", outcome, [sv EXCEPT !.pc = "insertGrade", !.photoUrl = FileName])
       ELSE /\ sv' = Did("upload", outcome,
                            IF outcome = "threw" THEN Catch("Failed to fetch")
                            ELSE Return(Failure("Failed to upload photo")))
            /\ UNCHANGED storage
    /\ UNCHANGED <<grades, grading_breakdown, engineVars, fn, otherVars>>

\* The id the grades table gives its next row.
NextGradeId == Len(grades) + 1

\* const gradeId = gradeData[0].id, read from the first row of the table
\* instead of the row the insert returned.
gradeIdOfFirstRow(gradeData) == 1

\* const gradeId = gradeData[0].id
gradeIdOf(gradeData) == gradeData[1].id

\* STEP 4: grades.insert([gradeRecord]).select() and the code up to the
\* breakdown insert.  The new row's id is fresh; select() returns the row.
InsertGrade(outcome) ==
    /\ sv.pc = "insertGrade"
    /\ IF outcome = "answered"
       THEN LET gradeData == <<gradeRecord(NextGradeId, sv.userId, sv.studentId,
                                           sv.photoUrl, sv.gradingData)>>
            IN  /\ grades' = grades \o gradeData
                /\ sv' = Did("insertGrade", outcome,
                              [sv EXCEPT !.pc = "insertBreakdown",
                                         !.gradeId = gradeIdOf(gradeData)])
       ELSE /\ sv' = Did("insertGrade", outcome,
                            IF outcome = "threw" THEN Catch("Failed to fetch")
                            ELSE Return(Failure("Failed to save grade")))
            /\ UNCHANGED grades
    /\ UNCHANGED <<grading_breakdown, storage, engineVars, fn, otherVars>>

\* STEP 5: grading_breakdown.insert([breakdownRecord]).select(), the trigger
\* it fires, and the return.  A failed insert is still reported as success;
\* an insert that throws is caught and reported as a failure.
InsertBreakdown(outcome) ==
    /\ sv.pc = "insertBreakdown"
    /\ LET row == breakdownRecord(sv.gradeId, sv.gradingData)
       IN  IF outcome = "threw"
           THEN /\ sv' = Did("insertBreakdown", "threw", Catch("Failed to fetch"))
                /\ UNCHANGED <<grades, grading_breakdown>>
           ELSE IF outcome = "failed" \/ ~BreakdownAccepted(row)
           THEN /\ sv' = Did("insertBreakdown", "failed", Return(BreakdownIncomplete(sv.gradeId)))
                /\ UNCHANGED <<grades, grading_breakdown>>
           ELSE /\ grading_breakdown' = Append(grading_breakdown, row)
                /\ grades' = update_final_score(grades, row)
                /\ sv' = Did("insertBreakdown", "answered", Return(Saved(sv.gradeId)))
    /\ UNCHANGED <<storage, engineVars, fn, otherVars>>

\* The caller has the returned object; the next call may start.
SaveReturned ==
    /\ sv.pc \in {"returned", "rejected"}
    /\ sv' = SaveIdle
    /\ UNCHANGED <<grades, grading_breakdown, storage, engineVars, fn, otherVars>>

SaveNext ==
    \/ \E userId \in Users \cup {""}, gradingData \in GradingData \cup {NoResult},
          photoFile \in {"photo.jpg", ""} :
            SaveGradingResult(userId, gradingData, photoFile)
    \/ \E outcome \in Outcomes : StudentLookup(outcome)
    \/ \E outcome \in Outcomes : UploadPhoto(outcome)
    \/ \E outcome \in Outcomes : InsertGrade(outcome)
    \/ \E outcome \in Outcomes : InsertBreakdown(outcome)
    \/ SaveReturned

SaveSpecInit == EngineInit /\ fn = FnIdle /\ SaveInit /\ PairInit /\ AuthInit /\ UiInit /\ UiInit

SpecSave == SaveSpecInit /\ [][SaveNext]_vars

----------------------------------------------------------------------------
(* PhotoUpload: processFile, handleUploadAndGrade and the flow they drive *)

\* The previews a chosen file can have: a data URL that does not decode, a
\* photo three rows high, and photos of one colour seven rows high.
UploadSources ==
    {Unreadable, Readable(Plain(3, Gray))}
    \cup {Readable(Plain(7, colour)) : colour \in {Black, White, Gray}}

\* processFile(selectedFile) for a file that passes validateImageFile, with
\* its awaited helpers: the file and its preview are set; the full-body check
\* may leave a warning; a helper that throws leaves the preview as it was.
ProcessFile(src, outcome) ==
    /\ ui.pc = "idle"
    /\ ui.step = "upload"
    /\ ui' = CASE outcome = "ok" ->
                    [ui EXCEPT !.file = "photo.jpg", !.preview = src, !.error = ""]
               [] outcome = "warned" ->
                    [ui EXCEPT !.file = "photo.jpg", !.preview = src,
                               !.error = "Warning: Photo may not show full body"]
               [] OTHER ->
                    [ui EXCEPT !.file = "photo.jpg", !.error = "Failed to process image"]
    /\ UNCHANGED <<engineVars, fn, saveVars, calls, authVars>>

\* The catch and finally blocks of handleUploadAndGrade.
UiCatch(message) ==
    [ui EXCEPT !.pc = "idle", !.error = message, !.step = "upload", !.loading = FALSE]

\* handleUploadAndGrade up to its first await; user is user?.id of useAuth.
\* The button is shown in the upload step and disabled while loading.
HandleUploadAndGrade(user) ==
    /\ ui.pc = "idle"
    /\ ui.step = "upload"
    /\ ~ui.loading
    /\ Cardinality(storage) < MaxPhotos
    /\ ui' = IF ui.file = ""
             THEN [ui EXCEPT !.error = "Please select a photo first"]
             ELSE IF user = ""
             THEN [ui EXCEPT !.error = "You need to be logged in to upload photos. Please login again.",
                             !.navigated = TRUE]
             ELSE [ui EXCEPT !.pc = "uploading", !.userId = user, !.loading = TRUE,
                             !.error = "", !.step = "analyzing", !.photoUrl = NoUrl,
                             !.storedAtStart = Cardinality(storage)]
    /\ UNCHANGED <<engineVars, fn, saveVars, calls, authVars>>

\* The object name userId/timestamp-sanitizedName; the timestamp is the
\* number of objects stored so far.
UiFileName == <<ui.userId, Cardinality(storage) + 1, "photo.jpg">>

\* From the answer of storage.upload to the await of analyzeUniform(preview),
\* or to the end of the handler through catch.
UiUploaded(outcome) ==
    /\ ui.pc = "uploading"
    /\ IF outcome = "answered"
       THEN /\ storage' = storage \cup {UiFileName}
            /\ ui' = [ui EXCEPT !.pc = "analyzing", !.photoUrl = UiFileName]
            /\ pc' = "decoding"
            /\ source' = ui.preview
            /\ promise' = "pending"
            /\ UNCHANGED <<result, uncaught, reads>>
       ELSE /\ ui' = UiCatch(IF outcome = "threw" THEN "Failed to fetch"
                             ELSE "Failed to upload photo")
            /\ UNCHANGED <<storage, engineVars>>
    /\ UNCHANGED <<sv, grades, grading_breakdown, fn, calls, authVars>>

\* From the resolution of analyzeUniform to the first await of
\* saveGradingResult(userId, gradingData, file).
UiAnalyzed ==
    /\ ui.pc = "analyzing"
    /\ promise = "resolved"
    /\ sv' = SaveCall(ui.userId, result, ui.file)
    /\ ui' = [ui EXCEPT !.pc = "saving"]
    /\ pc' = "idle"
    /\ source' = Unreadable
    /\ promise' = "none"
    /\ result' = NoResult
    /\ reads' = NoReads
    /\ UNCHANGED <<uncaught, grades, grading_breakdown, storage, fn, calls, authVars>>

\* setGradingResult({ ...gradingData, gradeId: dbResult.gradeId, photoUrl }).
UiResult(dbResult, gradingData) ==
    Shown(gradingData, dbResult.gradeId, ui.photoUrl)

\* From the answer of saveGradingResult to the end of the handler.
UiSaved ==
    /\ ui.pc = "saving"
    /\ sv.pc \in {"returned", "rejected"}
    /\ ui' = IF sv.pc = "rejected" THEN UiCatch("Failed to fetch")
             ELSE IF ~sv.ret.success THEN UiCatch(sv.ret.error)
             ELSE [ui EXCEPT !.pc = "idle", !.step = "result", !.loading = FALSE,
                             !.gradingResult = UiResult(sv.ret, sv.gradingData)]
    /\ sv' = SaveIdle
    /\ UNCHANGED <<grades, grading_breakdown, storage, engineVars, fn, calls, authVars>>

\* "Upload Another Photo"
UploadAnother ==
    /\ ui.pc = "idle"
    /\ ui.step = "result"
    /\ ui' = [ui EXCEPT !.gradingResult = NoGradingResult, !.preview = Unreadable,
                        !.file = "", !.step = "upload"]
    /\ UNCHANGED <<engineVars, fn, saveVars, calls, authVars>>

\* The steps that continue a running handler: the answers of the awaited
\* calls.
UploadContinues ==
    \/ \E outcome \in Outcomes : UiUploaded(outcome)
    \/ ImgOnload
    \/ ImgOnerror
    \/ UiAnalyzed
    \/ \E outcome \in Outcomes : StudentLookup(outcome)
    \/ \E outcome \in Outcomes : UploadPhoto(outcome)
    \/ \E outcome \in Outcomes : InsertGrade(outcome)
    \/ \E outcome \in Outcomes : InsertBreakdown(outcome)
    \/ UiSaved

UploadNext ==
    \/ \E src \in UploadSources, outcome \in {"ok", "warned", "failed"} :
          ProcessFile(src, outcome)
    \/ \E user \in Users \cup {""} : HandleUploadAndGrade(user)
    \/ UploadContinues
    \/ UploadAnother

SpecUpload == Init /\ [][UploadNext]_vars

----------------------------------------------------------------------------
(* Two invocations of analyzeUniform in flight together *)

\* The arguments of the two invocations: an undecodable data URL, photos of
\* one colour three and seven rows high, and a photo of two colours.
PairSources ==
    {Unreadable}
    \cup {Readable(Plain(n, colour)) : n \in {3, 7}, colour \in Palette}
    \cup {Readable(Plain(4, White) \o Plain(3, Black))}

\* Every handler reading the image element of the first invocation.
imgOfFirst(i) == calls[1].source

\* The image element the handlers of invocation i close over: const img of
\* that invocation.
imgOf(i) == calls[i].source

\* analyzeUniform(imageDataUrl), invocation i.  overlapped records that the
\* other invocation was pending at that moment.
PairAnalyzeUniform(i, src) ==
    /\ calls[i].pc = "idle"
    /\ calls' = [j \in 1..2 |->
                   IF j = i
                   THEN [pc |-> "decoding", source |-> src, promise |-> "pending",
                         result |-> NoResult, overlapped |-> calls[3 - i].pc = "decoding"]
                   ELSE [calls[j] EXCEPT !.overlapped = @ \/ calls[j].pc = "decoding"]]
    /\ UNCHANGED <<engineVars, fn, saveVars, authVars, ui>>

\* img.onload of invocation i.
PairImgOnload(i) ==
    /\ calls[i].pc = "decoding"
    /\ calls[i].source.readable
    /\ \E analysis \in {analyzeImageProperties(imgOf(i).img)} :
           calls' = [calls EXCEPT ![i] =
                       IF analysis.threw
                       THEN [@ EXCEPT !.pc = "scoring"]
                       ELSE [@ EXCEPT !.pc = "done", !.promise = "resolved",
                                      !.result = GradingResultOf(analysis.scores)]]
    /\ UNCHANGED <<engineVars, fn, saveVars, authVars, ui>>

\* img.onerror of invocation i.
PairImgOnerror(i) ==
    /\ calls[i].pc = "decoding"
    /\ ~calls[i].source.readable
    /\ calls' = [calls EXCEPT ![i] =
                   [@ EXCEPT !.pc = "failed", !.promise = "resolved",
                             !.result = getDefaultGrade]]
    /\ UNCHANGED <<engineVars, fn, saveVars, authVars, ui>>

\* The caller of invocation i has taken the result.
PairTakeResult(i) ==
    /\ calls[i].pc \in {"done", "failed"}
    /\ calls' = [calls EXCEPT ![i] = CallIdle]
    /\ UNCHANGED <<engineVars, fn, saveVars, authVars, ui>>

PairNext ==
    \/ \E i \in 1..2, src \in PairSources : PairAnalyzeUniform(i, src)
    \/ \E i \in 1..2 : PairImgOnload(i)
    \/ \E i \in 1..2 : PairImgOnerror(i)
    \/ \E i \in 1..2 : PairTakeResult(i)

SpecPair == Init /\ [][PairNext]_vars

----------------------------------------------------------------------------
(* AuthProvider: initAuth, the onAuthStateChange handler, and the router *)

\* The state updates of one stretch of code between two awaits are applied
\* together, and the provider's consumers render again with the new value.
AuthStep(a) ==
    /\ auth' = a
    /\ rendered' = RouteElement(route, a)
    /\ UNCHANGED <<route, engineVars, fn, saveVars, calls, ui>>

\* initAuth, from the answer of getSession to the next await or to its end.
\* getSession answers with the session the client holds: none after a
\* SIGNED_OUT, that of the user of the last SIGNED_IN.
InitGetSession(outcome, u) ==
    /\ auth.init = "getSession"
    /\ outcome = "session" =>
          /\ auth.last # "SIGNED_OUT"
          /\ auth.last = "SIGNED_IN" => u = auth.evUser
    /\ AuthStep(
         CASE outcome = "sessionError" ->
                [auth EXCEPT !.error = "session", !.user = "", !.userType = "",
                             !.userData = "", !.loading = FALSE, !.init = "finished"]
           [] outcome = "noSession" ->
                [auth EXCEPT !.user = "", !.userType = "", !.userData = "",
                             !.loading = FALSE, !.init = "finished"]
           [] OTHER ->
                [auth EXCEPT !.user = u, !.initUser = u, !.init = "adminLookup"])

\* initAuth, from the answer of the admin_users query.
InitAdminLookup(outcome) ==
    /\ auth.init = "adminLookup"
    /\ AuthStep(
         IF outcome = "threw"
         THEN [auth EXCEPT !.userType = "student", !.userData = "", !.loading = FALSE,
                           !.init = "finished"]
         ELSE IF outcome = "answered" /\ SingleRow(admin_users, auth.initUser) # ""
         THEN [auth EXCEPT !.userType = "admin",
                           !.userData = SingleRow(admin_users, auth.initUser),
                           !.loading = FALSE, !.init = "finished"]
         ELSE [auth EXCEPT !.init = "studentLookup"])

\* initAuth without its finally block: the path of a failed students query
\* ends with loading still set.
InitStudentLookupWithoutFinally(outcome) ==
    /\ auth.init = "studentLookup"
    /\ AuthStep(
         IF outcome = "answered"
         THEN [auth EXCEPT !.userType = "student",
                           !.userData = SingleRow(students, auth.initUser),
                           !.loading = FALSE, !.init = "finished"]
         ELSE [auth EXCEPT !.userType = "student", !.userData = "",
                           !.init = "finished"])

\* initAuth, from the answer of the students query.
InitStudentLookup(outcome) ==
    /\ auth.init = "studentLookup"
    /\ AuthStep(
         IF outcome = "answered"
         THEN [auth EXCEPT !.userType = "student",
                           !.userData = SingleRow(students, auth.initUser),
                           !.loading = FALSE, !.init = "finished"]
         ELSE [auth EXCEPT !.userType = "student", !.userData = "", !.loading = FALSE,
                           !.init = "finished"])

\* The handler of a SIGNED_IN event with the session of user u, up to its
\* first await.
SignedIn(u) ==
    /\ auth.ev = "idle"
    /\ AuthStep([auth EXCEPT !.user = u, !.evUser = u, !.ev = "adminLookup",
                              !.last = "SIGNED_IN"])

\* The handler, from the answer of the admin_users query.
EvAdminLookup(outcome) ==
    /\ auth.ev = "adminLookup"
    /\ AuthStep(
         IF outcome = "threw"
         THEN [auth EXCEPT !.userType = "student", !.userData = "", !.ev = "idle"]
         ELSE IF outcome = "answered" /\ SingleRow(admin_users, auth.evUser) # ""
         THEN [auth EXCEPT !.userType = "admin",
                           !.userData = SingleRow(admin_users, auth.evUser),
                           !.ev = "idle"]
         ELSE [auth EXCEPT !.ev = "studentLookup"])

\* The handler, from the answer of the students query.
EvStudentLookup(outcome) ==
    /\ auth.ev = "studentLookup"
    /\ AuthStep(
         IF outcome = "answered"
         THEN [auth EXCEPT !.userType = "student",
                           !.userData = SingleRow(students, auth.evUser), !.ev = "idle"]
         ELSE [auth EXCEPT !.userType = "student", !.userData = "", !.ev = "idle"])

\* A session is held, or may be: the client has not answered getSession yet,
\* or answered it with a session, or a SIGNED_IN came last.
SessionMayExist ==
    \/ auth.last = "SIGNED_IN"
    \/ auth.last = "none" /\ (auth.init = "getSession" \/ auth.initUser # "")

\* The handler of a SIGNED_OUT event; it awaits nothing.  The event ends a
\* session.
SignedOut ==
    /\ SessionMayExist
    /\ AuthStep([auth EXCEPT !.user = "", !.userType = "", !.userData = "",
                          !.last = "SIGNED_OUT"])

\* The user opens a path.
GoTo(path) ==
    /\ route # path
    /\ route' = path
    /\ rendered' = RouteElement(path, auth)
    /\ UNCHANGED <<auth, engineVars, fn, saveVars, calls, ui>>

\* <Navigate to=... replace />: the router moves to the target.
FollowNavigate ==
    /\ rendered.kind = "navigate"
    /\ route' = rendered.to
    /\ rendered' = RouteElement(rendered.to, auth)
    /\ UNCHANGED <<auth, engineVars, fn, saveVars, calls, ui>>

AuthNext ==
    \/ \E outcome \in {"sessionError", "noSession", "session"}, u \in SessionUsers :
          InitGetSession(outcome, u)
    \/ \E outcome \in Outcomes : InitAdminLookup(outcome)
    \/ \E outcome \in Outcomes : InitStudentLookup(outcome)
    \/ \E u \in SessionUsers : SignedIn(u)
    \/ \E outcome \in Outcomes : EvAdminLookup(outcome)
    \/ \E outcome \in Outcomes : EvStudentLookup(outcome)
    \/ SignedOut
    \/ \E path \in Paths : GoTo(path)
    \/ FollowNavigate

SpecAuth == Init /\ [][AuthNext]_vars

\* The next step of initAuth: the awaited call it is suspended at answers.
InitContinues ==
    \/ \E outcome \in {"sessionError", "noSession", "session"}, u \in SessionUsers :
          InitGetSession(outcome, u)
    \/ \E outcome \in Outcomes : InitAdminLookup(outcome)
    \/ \E outcome \in Outcomes : InitStudentLookup(outcome)

\* The provider stays mounted and every call initAuth awaits returns.
SpecAuthFair == SpecAuth /\ WF_vars(InitContinues)

----------------------------------------------------------------------------
(* Properties of the grading engine *)

\* C1: every component score of a result the engine hands back (scored or
\* default) is an integer in 0..100.
C1_ScoresInRange ==
    promise = "resolved" =>
        \A c \in Components : result.breakdown[c] \in 0..100

\* An all-black photo has been scored: shirt 45, cleanliness 25.
C1_Witness ==
    /\ pc = "done"
    /\ result.breakdown.shirt = 45
    /\ result.breakdown.cleanliness = 25

\* C4: every invocation returns a result: none is left in scoring with its
\* promise pending after the load handler has ended.
C4_EveryInvocationReturns ==
    /\ pc \in {"idle", "decoding", "done", "failed"}
    /\ ~uncaught
    /\ pc \in {"done", "failed"} => promise = "resolved"

\* C5: on a decode failure the result is the default one: every score 50,
\* score 50, grade D, one generic message for all five components, and the
\* score and grade are those the aggregator gives for five scores of 50.
C5_DefaultOnDecodeFailure ==
    pc = "failed" =>
        /\ result.score = 50
        /\ result.grade = "D"
        /\ \A c \in Components : result.breakdown[c] = 50
        /\ \A c \in Components :
              result.feedback[c] = "Please upload a clear photo of your uniform."
        /\ calculateFinalGrade(result.breakdown) =
              [finalScore |-> result.score, finalGrade |-> result.grade]

C5_Witness == pc = "failed" /\ ~source.readable /\ promise = "resolved"


----------------------------------------------------------------------------
(* Properties of the aggregator, the classifiers and the mapper *)

\* A hundred times the exact weighted sum of five scores.
WeightedSum100(scores) ==
    25 * scores.shirt + 25 * scores.pant + 20 * scores.shoes
    + 15 * scores.grooming + 15 * scores.cleanliness

\* The scores each scorer can return: 100 less one deduction of each check.
Producible ==
    [shirt       |-> {100 - a - b - c - d :
                        a \in {0, 10, 20}, b \in {0, 5, 15}, c \in {0, 10, 20}, d \in {0, 15}},
     pant        |-> {100 - a - b - c : a \in {0, 10, 25}, b \in {0, 15}, c \in {0, 8, 15}},
     shoes       |-> {100 - a - b - c : a \in {0, 15, 30}, b \in {0, 10, 25}, c \in {0, 10}},
     grooming    |-> {100 - a - b - c : a \in {0, 10, 20}, b \in {0, 10, 25}, c \in {0, 15}},
     cleanliness |-> {100 - a - b - c - d :
                        a \in {0, 10, 25}, b \in {0, 8, 15, 25}, c \in {0, 5, 15}, d \in {0, 10}}]

Aggregated == fn.stage \in {"final", "stats", "sql"}

\* C2, as stated: finalScore is the exact weighted sum rounded half up.
C2_RoundHalfUp ==
    Aggregated => fn.final.finalScore = (WeightedSum100(fn.scores) + 50) \div 100

\* C2, amended: finalScore is an integer nearest to the exact weighted sum
\* (an exact tie k + 1/2 may be rounded down to k, the sum being evaluated in
\* doubles), it is the sum rounded half up for every set of scores the
\* scorers can produce, and the weights sum to 1.
C2_NearestInteger ==
    Aggregated =>
        /\ 100 * fn.final.finalScore - WeightedSum100(fn.scores) \in -50..50
        /\ (\A c \in Components : fn.scores[c] \in Producible[c])
              => fn.final.finalScore = (WeightedSum100(fn.scores) + 50) \div 100
        /\ weights.shirt.n + weights.pant.n + weights.shoes.n
           + weights.grooming.n + weights.cleanliness.n = 20
        /\ weights.shirt.e + weights.pant.e + weights.shoes.e
           + weights.grooming.e + weights.cleanliness.e = 0

\* The exact sum 1.5 has been rounded to 1.
C2_Witness ==
    /\ fn.stage = "final"
    /\ fn.scores = [shirt |-> 0, pant |-> 0, shoes |-> 0, grooming |-> 1, cleanliness |-> 9]
    /\ fn.final.finalScore = 1

GradeRank(letter) ==
    CASE letter = "A" -> 4 [] letter = "B" -> 3 [] letter = "C" -> 2
      [] letter = "D" -> 1 [] OTHER -> 0

\* C3: the letter of a final score is A from 85, B in 70..84, C in 60..69,
\* D in 50..59 and F below 50, and no lower score has a better letter.
C3_GradeCutoffs ==
    Aggregated =>
        /\ fn.final.finalScore \in 0..100
        /\ fn.final.finalGrade = "A" <=> fn.final.finalScore >= 85
        /\ fn.final.finalGrade = "B" <=> fn.final.finalScore \in 70..84
        /\ fn.final.finalGrade = "C" <=> fn.final.finalScore \in 60..69
        /\ fn.final.finalGrade = "D" <=> fn.final.finalScore \in 50..59
        /\ fn.final.finalGrade = "F" <=> fn.final.finalScore < 50
        /\ \A lower \in 0..fn.final.finalScore :
              GradeRank(finalGradeOf(lower)) <= GradeRank(fn.final.finalGrade)

C3_Witness == fn.stage = "final" /\ fn.final.finalScore = 85 /\ fn.final.finalGrade = "A"

\* C9: the engine, the reporting service and the SQL function give one final
\* score the same letter.
C9_SameCutoffsEverywhere ==
    fn.stage = "sql" =>
        /\ \A l \in DOMAIN fn.gradeCount :
              fn.gradeCount[l] = (IF l = fn.final.finalGrade THEN 1 ELSE 0)
        /\ fn.sqlGrade = fn.final.finalGrade

C9_Witness ==
    /\ fn.stage = "sql"
    /\ fn.final.finalScore = 84
    /\ fn.sqlGrade = "B"
    /\ fn.gradeCount["B"] = 1

\* The five messages of each component, best tier first.
Vocabulary ==
    [shirt |->
       <<"Shirt looks excellent. Clean, well-fitted, and properly worn.",
         "Shirt is good. Consider pressing out any wrinkles.",
         "Shirt needs attention. Ensure it's clean and properly ironed.",
         "Shirt needs improvement. Ensure proper fit and cleanliness.",
         "Shirt does not meet standards. Replace or clean immediately.">>,
     pant |->
       <<"Pants are perfect. Neat, clean, and well-maintained.",
         "Pants look good. Minor adjustments may help.",
         "Pants need attention. Ensure they're clean and wrinkle-free.",
         "Pants need improvement. Ensure proper fit and cleanliness.",
         "Pants do not meet standards. Replace or clean immediately.">>,
     shoes |->
       <<"Shoes are excellent. Polished and well-maintained.",
         "Shoes look good. Consider polishing for better shine.",
         "Shoes need polishing. Ensure they're clean and shiny.",
         "Shoes need significant improvement. Polish and clean them.",
         "Shoes do not meet standards. Replace or shine immediately.">>,
     grooming |->
       <<"Grooming is excellent. Hair neat and well-groomed.",
         "Grooming looks good. Minor tidying recommended.",
         "Hair needs attention. Ensure it's neat and tidy.",
         "Hair needs significant grooming. Get a proper haircut.",
         "Hair does not meet standards. Get groomed immediately.">>,
     cleanliness |->
       <<"Overall cleanliness is excellent. Well-maintained uniform.",
         "Uniform is clean. Keep maintaining this standard.",
         "Uniform needs cleaning. Wash and maintain properly.",
         "Uniform is dirty. Wash immediately.",
         "Uniform does not meet cleanliness standards. Major cleaning needed.">>]

\* The tier of a score: 1 excellent, 2 good, 3 needs attention, 4 needs
\* improvement, 5 does not meet standards.
Tier(score) ==
    CASE score \in 90..100 -> 1
      [] score \in 75..89  -> 2
      [] score \in 60..74  -> 3
      [] score \in 45..59  -> 4
      [] OTHER             -> 5

\* C10: for every component the message is the one of the score's tier, the
\* tiers cut at 90, 75, 60 and 45.
C10_FeedbackTiers ==
    fn.stage # "input" =>
        \A c \in Components : fn.feedback[c] = Vocabulary[c][Tier(fn.scores[c])]

\* Grooming at 75 is told "good", shoes at 100 "excellent".
C10_Witness ==
    /\ fn.stage = "feedback"
    /\ fn.scores.grooming = 75
    /\ fn.feedback.grooming = "Grooming looks good. Minor tidying recommended."
    /\ fn.feedback.shoes = "Shoes are excellent. Polished and well-maintained."

----------------------------------------------------------------------------
(* Properties of the persisted grades *)

BreakdownsOf(gradeId) ==
    {i \in 1..Len(grading_breakdown) : grading_breakdown[i].grade_id = gradeId}

\* A hundred times the exact weighted sum of a breakdown row's scores, in
\* hundredths as the row holds them.
RowWeightedSum100(row) ==
    (25 * row.shirt_score + 25 * row.pant_score + 20 * row.shoes_score
     + 15 * row.grooming_score + 15 * row.cleanliness_score) \div 100

\* C7: every grade row that has a breakdown row holds the weighted sum of the
\* breakdown's scores, rounded to an integer, as final_score and the cutoff
\* letter of that score as final_grade.
C7_PersistedScoreIsWeightedSum ==
    \A g \in 1..Len(grades) : \A b \in BreakdownsOf(grades[g].id) :
        /\ grades[g].final_score % 100 = 0
        /\ grades[g].final_score - RowWeightedSum100(grading_breakdown[b]) \in -50..50
        /\ grades[g].final_grade = "A" <=> grades[g].final_score >= 8500
        /\ grades[g].final_grade = "B" <=> grades[g].final_score \in 7000..8499
        /\ grades[g].final_grade = "C" <=> grades[g].final_score \in 6000..6999
        /\ grades[g].final_grade = "D" <=> grades[g].final_score \in 5000..5999
        /\ grades[g].final_grade = "F" <=> grades[g].final_score < 5000

SaveSucceeded == sv.pc = "returned" /\ sv.ret.success

\* C8, as stated: a save reported as successful has left the grade row and
\* exactly one breakdown row referencing it.
C8_SuccessMeansGradeAndBreakdown ==
    SaveSucceeded =>
        /\ \E g \in 1..Len(grades) : grades[g].id = sv.ret.gradeId
        /\ Cardinality(BreakdownsOf(sv.ret.gradeId)) = 1

\* C8, amended: a save reported as successful has left the grade row with at
\* most one breakdown row referencing it: exactly one when the message is
\* "Grade saved successfully", none when the breakdown insert failed, which
\* is reported as success with "Grade created (breakdown incomplete)"; and no
\* grade row ever has two breakdown rows.
C8_SuccessMeansGradeStored ==
    /\ \A g \in 1..Len(grades) : Cardinality(BreakdownsOf(grades[g].id)) <= 1
    /\ SaveSucceeded =>
        /\ \E g \in 1..Len(grades) : grades[g].id = sv.ret.gradeId
        /\ sv.ret.message \in {"Grade saved successfully",
                               "Grade created (breakdown incomplete)"}
        /\ sv.ret.message = "Grade saved successfully"
              => Cardinality(BreakdownsOf(sv.ret.gradeId)) = 1
        /\ sv.ret.message = "Grade created (breakdown incomplete)"
              => Cardinality(BreakdownsOf(sv.ret.gradeId)) = 0

\* A second save has succeeded without its breakdown, after a complete one.
C8_Witness ==
    /\ SaveSucceeded
    /\ sv.ret.message = "Grade created (breakdown incomplete)"
    /\ sv.ret.gradeId = 2
    /\ Len(grades) = 2
    /\ Len(grading_breakdown) = 1

----------------------------------------------------------------------------
(* Properties of the feedback of a returned result *)

ResultReturned == promise = "resolved"

\* C11, as stated: in every result the engine returns, each component's
\* feedback is non-empty and is the vocabulary message of the tier of that
\* component's score.
C11_FeedbackFromVocabulary ==
    ResultReturned =>
        \A c \in Components :
            /\ result.feedback[c] # ""
            /\ result.feedback[c] = Vocabulary[c][Tier(result.breakdown[c])]

\* C11, amended: in every result the engine returns, each component's
\* feedback is non-empty; in a scored result it is the vocabulary message of
\* the tier of that component's score; in the default result of a decode
\* failure it is the generic message, which is in no component's vocabulary.
C11_FeedbackOfScoredAndDefault ==
    ResultReturned =>
        \A c \in Components :
            /\ result.feedback[c] # ""
            /\ pc = "done" => result.feedback[c] = Vocabulary[c][Tier(result.breakdown[c])]
            /\ pc = "failed" =>
                  /\ result.feedback[c] = "Please upload a clear photo of your uniform."
                  /\ \A t \in 1..5 : result.feedback[c] # Vocabulary[c][t]

\* An all-white photo has been scored: shirt 90 is told "excellent", shoes 45
\* "needs significant improvement".
C11_Witness ==
    /\ pc = "done"
    /\ result.breakdown.shirt = 90
    /\ result.feedback.shirt = "Shirt looks excellent. Clean, well-fitted, and properly worn."
    /\ result.breakdown.shoes = 45
    /\ result.feedback.shoes = "Shoes need significant improvement. Polish and clean them."

----------------------------------------------------------------------------
(* Properties of the scorers *)

Scored == pc = "done"

MidGray == \A i \in 1..Height(source.img) : source.img[i] = Pixel(150, 150, 150)

\* C12, as stated: the cleanliness score of a mid-gray photo (every pixel
\* R = G = B = 150) is 90.
C12_MidGrayCleanliness90 ==
    Scored /\ MidGray => result.breakdown.cleanliness = 90

\* C12, amended: the cleanliness score of a mid-gray photo is 75: no pixel is
\* brighter than 200, so the white ratio 0 is below 0.1 and costs 15, and the
\* colour variation 0 is below 15 and costs 10; there is no brightness and no
\* dark-ratio deduction.
C12_MidGrayCleanliness75 ==
    Scored /\ MidGray => result.breakdown.cleanliness = 100 - 15 - 10

C12_Witness == Scored /\ MidGray /\ result.breakdown.cleanliness = 75

----------------------------------------------------------------------------
(* Properties of invocations in flight together *)

\* The result of an invocation made alone, as the single invocation of Spec
\* resolves it.
AloneResult(src) ==
    IF src.readable THEN GradingResultOf(analyzeImageProperties(src.img).scores)
    ELSE getDefaultGrade

----------------------------------------------------------------------------
(* Properties of the protected routes *)

OnProtectedRoute == route \in StudentPaths \cup AdminPaths

\* The user, as useAuth reports them, may see the route.
MaySee ==
    /\ ~auth.loading
    /\ auth.user # ""
    /\ route \in StudentPaths => auth.userType = "student"
    /\ route \in AdminPaths => auth.userType = "admin"

\* C14: a protected route shows its element only when loading is over, the
\* user is authenticated and has the role of the route; in every other state
\* it shows the spinner (while loading) or a redirect: to /login when nobody
\* is signed in, to /admin for an admin on a student route, to /dashboard for
\* a student on an admin route.
C14_ProtectedRouteGuards ==
    OnProtectedRoute =>
        /\ rendered.kind = "element" <=> MaySee
        /\ ~MaySee => rendered.kind \in {"spinner", "navigate"}
        /\ auth.loading => rendered.kind = "spinner"
        /\ ~auth.loading /\ auth.user = "" => rendered = [kind |-> "navigate", to |-> "/login"]
        /\ ~auth.loading /\ auth.user # "" /\ route \in StudentPaths /\ auth.userType = "admin"
              => rendered = [kind |-> "navigate", to |-> "/admin"]
        /\ ~auth.loading /\ auth.user # "" /\ route \in AdminPaths /\ auth.userType = "student"
              => rendered = [kind |-> "navigate", to |-> "/dashboard"]

\* A signed-in student who opened /admin is being sent to /dashboard.
C14_Witness ==
    /\ route = "/admin"
    /\ ~auth.loading
    /\ auth.user = "u1"
    /\ auth.userType = "student"
    /\ rendered = [kind |-> "navigate", to |-> "/dashboard"]

\* The statistics of the scored photo as the claims word them.  Brightness
\* is held three-fold: r + g + b.
Bright3(p) == p.r + p.g + p.b

\* The rows a read covers, the top row of the photo being row 1.
RowsOf(read) == {read.sy + k : k \in 1..read.sh}

FullImage == 1..Height(source.img)

RECURSIVE SumBright3(_)
SumBright3(rows) ==
    IF rows = {} THEN 0
    ELSE LET r == CHOOSE x \in rows : TRUE
         IN  Bright3(source.img[r]) + SumBright3(rows \ {r})

RECURSIVE SumChannel(_, _)
SumChannel(rows, ch) ==
    IF rows = {} THEN 0
    ELSE LET r == CHOOSE x \in rows : TRUE
         IN  source.img[r][ch] + SumChannel(rows \ {r}, ch)

\* The number of rows of a region darker than lim3 / 3, brighter than lim3 / 3.
DarkerThan(rows, lim3) == Cardinality({r \in rows : Bright3(source.img[r]) < lim3})

BrighterThan(rows, lim3) == Cardinality({r \in rows : Bright3(source.img[r]) > lim3})

\* An average rounded to the nearest integer.
Average(sum, n) == (2 * sum + n) \div (2 * n)

AvgBrightness == Average(SumBright3(FullImage), 3 * Height(source.img))

AvgOf(ch) == Average(SumChannel(FullImage, ch), Height(source.img))

\* |avgR - avgG| + |avgG - avgB|
ColorVariation ==
    (IF AvgOf("r") >= AvgOf("g") THEN AvgOf("r") - AvgOf("g") ELSE AvgOf("g") - AvgOf("r"))
    + (IF AvgOf("g") >= AvgOf("b") THEN AvgOf("g") - AvgOf("b") ELSE AvgOf("b") - AvgOf("g"))

\* clamp(100 - deductions, 0, 100)
Less(deductions) ==
    IF 100 - deductions < 0 THEN 0
    ELSE IF 100 - deductions > 100 THEN 100 ELSE 100 - deductions

\* The shoes score by the rules of C15 over the bottom strip, a pixel of the
\* strip being dark below brightness darkBelow3 / 3.
ShoesByRule(strip, darkBelow3) ==
    Less((IF SumBright3(strip) < 3 * 40 * Cardinality(strip)
             \/ SumBright3(strip) > 3 * 180 * Cardinality(strip) THEN 30
          ELSE IF SumBright3(strip) < 3 * 50 * Cardinality(strip)
                  \/ SumBright3(strip) > 3 * 160 * Cardinality(strip) THEN 15
          ELSE 0)
         + (IF 10 * DarkerThan(strip, darkBelow3) < 2 * Cardinality(strip) THEN 25
            ELSE IF 100 * DarkerThan(strip, darkBelow3) < 35 * Cardinality(strip) THEN 10
            ELSE 0)
         + (IF AvgBrightness < 70 THEN 10 ELSE 0))

\* C15, as stated: the shoes score follows the rules over the bottom strip,
\* the dark ratio being the fraction of its pixels with brightness below 100.
C15_ShoesDarkBelow100 ==
    Scored => result.breakdown.shoes = ShoesByRule(RowsOf(reads.bottomHalf), 3 * 100)

\* C15, amended: the shoes score follows the same rules, the dark ratio of
\* the bottom strip being the fraction of its pixels with brightness below
\* 120: -30 if bottomBrightness < 40 or > 180, else -15 if < 50 or > 160;
\* -25 if bottomDarkRatio < 0.2, else -10 if < 0.35; -10 if the full-image
\* avgBrightness < 70; clamped to 0..100.
C15_ShoesDarkBelow120 ==
    Scored => result.breakdown.shoes = ShoesByRule(RowsOf(reads.bottomHalf), 3 * 120)

\* The bottom strip of a scored photo has brightness 110: it counts as dark,
\* nothing is deducted.
C15_Witness ==
    /\ Scored
    /\ \A r \in RowsOf(reads.bottomHalf) : Bright3(source.img[r]) = 330
    /\ RowsOf(reads.bottomHalf) # {}
    /\ result.breakdown.shoes = 100

\* The grooming score by the rules of C16 over the top strip, a pixel of the
\* strip being dark below brightness darkBelow3 / 3.
GroomingByRule(strip, darkBelow3) ==
    Less((IF SumBright3(strip) < 3 * 90 * Cardinality(strip) THEN 20
          ELSE IF SumBright3(strip) > 3 * 230 * Cardinality(strip) THEN 10
          ELSE 0)
         + (IF 10 * DarkerThan(strip, darkBelow3) > 4 * Cardinality(strip) THEN 25
            ELSE IF 100 * DarkerThan(strip, darkBelow3) > 25 * Cardinality(strip) THEN 10
            ELSE 0)
         + (IF ColorVariation > 120 THEN 15 ELSE 0))

\* C16, as stated: the grooming score follows the rules over the top strip,
\* the dark ratio being the fraction of its pixels with brightness below 100.
C16_GroomingDarkBelow100 ==
    Scored => result.breakdown.grooming = GroomingByRule(RowsOf(reads.topHalf), 3 * 100)

\* C16, amended: the grooming score follows the same rules, the dark ratio of
\* the top strip being the fraction of its pixels with brightness below 80:
\* -20 if topBrightness < 90, else -10 if > 230; -25 if topDarkRatio > 0.4,
\* else -10 if > 0.25; -15 if the full-image colorVariation > 120; clamped to
\* 0..100.
C16_GroomingDarkBelow80 ==
    Scored => result.breakdown.grooming = GroomingByRule(RowsOf(reads.topHalf), 3 * 80)

\* The top strip of a scored photo is pure red, brightness 85: it is too dim
\* (-20) but does not count as dark.
C16_Witness ==
    /\ Scored
    /\ \A r \in RowsOf(reads.topHalf) : source.img[r] = Pixel(255, 0, 0)
    /\ RowsOf(reads.topHalf) # {}
    /\ ColorVariation <= 120
    /\ result.breakdown.grooming = 80

\* The number of pixels of the photo with brightness below 100, above 200.
DarkPixels == DarkerThan(FullImage, 3 * 100)

WhitePixels == BrighterThan(FullImage, 3 * 200)

AllOf(colour) == \A r \in FullImage : source.img[r] = colour

\* C17: the shirt score is 100 less 20 if avgBrightness < 80, else 10 if
\* > 220; less 15 if colorVariation > 100, else 5 if > 50; less 20 if
\* darkPixelRatio > 0.4, else 10 if > 0.25; less 15 if whitePixelRatio < 0.05;
\* clamped to 0..100.  An all-black photo scores 45, an all-white one 90.
C17_ShirtRules ==
    Scored =>
        /\ result.breakdown.shirt =
              Less((IF AvgBrightness < 80 THEN 20 ELSE IF AvgBrightness > 220 THEN 10 ELSE 0)
                   + (IF ColorVariation > 100 THEN 15 ELSE IF ColorVariation > 50 THEN 5 ELSE 0)
                   + (IF 10 * DarkPixels > 4 * Height(source.img) THEN 20
                      ELSE IF 100 * DarkPixels > 25 * Height(source.img) THEN 10 ELSE 0)
                   + (IF 100 * WhitePixels < 5 * Height(source.img) THEN 15 ELSE 0))
        /\ AllOf(Pixel(0, 0, 0)) => result.breakdown.shirt = 45
        /\ AllOf(Pixel(255, 255, 255)) => result.breakdown.shirt = 90

\* A scored photo a tenth white and three tenths dark, of colour variation
\* between 50 and 100: 100 - 5 - 10.
C17_Witness ==
    /\ Scored
    /\ AvgBrightness \in 80..220
    /\ ColorVariation \in 51..100
    /\ 100 * DarkPixels > 25 * Height(source.img)
    /\ 10 * DarkPixels <= 4 * Height(source.img)
    /\ 100 * WhitePixels >= 5 * Height(source.img)
    /\ result.breakdown.shirt = 85

\* The rows the pants scorer read as the lower half (C20 is about which rows
\* these are).
LowerHalf == RowsOf(reads.lowerHalf)

C19_CleanlinessRules ==
    Scored =>
        result.breakdown.cleanliness =
            Less((IF AvgBrightness < 100 THEN 25 ELSE IF AvgBrightness < 120 THEN 10 ELSE 0)
                 + (IF 100 * DarkPixels > 45 * Height(source.img) THEN 25
                    ELSE IF 100 * DarkPixels > 35 * Height(source.img) THEN 15
                    ELSE IF 100 * DarkPixels > 25 * Height(source.img) THEN 8 ELSE 0)
                 + (IF 10 * WhitePixels < Height(source.img) THEN 15
                    ELSE IF 100 * WhitePixels < 15 * Height(source.img) THEN 5 ELSE 0)
                 + (IF ColorVariation < 15 THEN 10 ELSE 0))

\* A scored photo of brightness between 100 and 120, four tenths dark, a
\* tenth white, of colour variation under 15: 100 - 10 - 15 - 5 - 10.
C19_Witness ==
    /\ Scored
    /\ AvgBrightness \in 100..119
    /\ 10 * DarkPixels = 4 * Height(source.img)
    /\ 10 * WhitePixels = Height(source.img)
    /\ ColorVariation < 15
    /\ result.breakdown.cleanliness = 60

----------------------------------------------------------------------------
(* Properties of the sampled regions *)

\* C20: for a photo of height H the scorers sample, over all columns, the
\* lower half = rows floor(H/2) up to H-1 (rows counted from 0; through the
\* last row, also for odd H), the bottom strip = the last floor(0.15 * H)
\* rows, the top strip = the first floor(0.30 * H) rows.
C20_RegionsSampled ==
    Scored =>
        /\ RowsOf(reads.lowerHalf) =
              {r \in FullImage : r - 1 >= Height(source.img) \div 2}
        /\ RowsOf(reads.bottomHalf) =
              {r \in FullImage : r > Height(source.img) - (15 * Height(source.img)) \div 100}
        /\ RowsOf(reads.topHalf) =
              {r \in FullImage : r <= (30 * Height(source.img)) \div 100}


----------------------------------------------------------------------------
(* Properties of the threshold comparisons *)

\* The full-image averages before rounding, compared as exact quotients:
\* the mean brightness is below t, above t.
MeanBrightnessBelow(t) == SumBright3(FullImage) < 3 * t * Height(source.img)

MeanBrightnessAbove(t) == SumBright3(FullImage) > 3 * t * Height(source.img)

\* |meanR - meanG| + |meanG - meanB| times the number of pixels.
SumVariation ==
    (IF SumChannel(FullImage, "r") >= SumChannel(FullImage, "g")
     THEN SumChannel(FullImage, "r") - SumChannel(FullImage, "g")
     ELSE SumChannel(FullImage, "g") - SumChannel(FullImage, "r"))
    + (IF SumChannel(FullImage, "g") >= SumChannel(FullImage, "b")
       THEN SumChannel(FullImage, "g") - SumChannel(FullImage, "b")
       ELSE SumChannel(FullImage, "b") - SumChannel(FullImage, "g"))

MeanVariationAbove(t) == SumVariation > t * Height(source.img)

MeanVariationBelow(t) == SumVariation < t * Height(source.img)

\* C21: the decisions the scorers take on avgBrightness and on colorVariation
\* are the ones the unrounded averages give (a mean brightness of 79.6 is
\* below 80): the shirt and the cleanliness scores are those of their rules
\* applied to the unrounded full-image averages.
C21_UnroundedThresholds ==
    Scored =>
        /\ result.breakdown.shirt =
              Less((IF MeanBrightnessBelow(80) THEN 20
                    ELSE IF MeanBrightnessAbove(220) THEN 10 ELSE 0)
                   + (IF MeanVariationAbove(100) THEN 15
                      ELSE IF MeanVariationAbove(50) THEN 5 ELSE 0)
                   + (IF 10 * DarkPixels > 4 * Height(source.img) THEN 20
                      ELSE IF 100 * DarkPixels > 25 * Height(source.img) THEN 10 ELSE 0)
                   + (IF 100 * WhitePixels < 5 * Height(source.img) THEN 15 ELSE 0))
        /\ result.breakdown.cleanliness =
              Less((IF MeanBrightnessBelow(100) THEN 25
                    ELSE IF MeanBrightnessBelow(120) THEN 10 ELSE 0)
                   + (IF 100 * DarkPixels > 45 * Height(source.img) THEN 25
                      ELSE IF 100 * DarkPixels > 35 * Height(source.img) THEN 15
                      ELSE IF 100 * DarkPixels > 25 * Height(source.img) THEN 8 ELSE 0)
                   + (IF 10 * WhitePixels < Height(source.img) THEN 15
                      ELSE IF 100 * WhitePixels < 15 * Height(source.img) THEN 5 ELSE 0)
                   + (IF MeanVariationBelow(15) THEN 10 ELSE 0))

----------------------------------------------------------------------------
(* Properties of empty regions *)

\* A scorer of the invocation asked the canvas for a region of no rows.
EmptyRegionRead ==
    \E k \in {"lowerHalf", "bottomHalf", "topHalf"} : reads[k].called /\ reads[k].sh = 0

\* C22: when a sampled region is empty (zero pixels) its statistics are taken
\* as zero without a division by zero, and the scoring of that image still
\* completes with every score in 0..100.
C22_EmptyRegionStillScored ==
    EmptyRegionRead =>
        /\ Scored
        /\ ~uncaught
        /\ \A c \in Components : result.breakdown[c] \in 0..100

----------------------------------------------------------------------------
(* Properties of saveGradingResult *)

SaveEnded == sv.pc \in {"returned", "rejected"}

MissingArgument == sv.userId = "" \/ sv.gradingData = NoResult \/ sv.photoFile = ""

\* The collaborator calls of the running call that did not succeed.
FailedOps == {i \in 1..Len(sv.ops) : sv.ops[i].outcome # "answered"}

ReturnedFailure == sv.pc = "returned" /\ ~sv.ret.success /\ sv.ret.error # ""

\* A missing argument is answered with a failure before any collaborator is
\* called, and a student lookup, photo upload or grade insert that fails is
\* the last call made.
StopsAtFailure ==
    /\ SaveEnded /\ MissingArgument => ReturnedFailure /\ sv.ops = <<>>
    /\ \A i \in FailedOps :
          sv.ops[i].op \in {"lookup", "upload", "insertGrade"} => i = Len(sv.ops)

\* C23, as stated: saveGradingResult never throws or rejects; every failure
\* is returned as {success: false, error}; a missing argument is answered so
\* before any database or storage operation; a failed student lookup, photo
\* upload or grade insert stops the pipeline.
C23_EveryFailureReturned ==
    /\ sv.pc # "rejected"
    /\ SaveEnded /\ FailedOps # {} => ReturnedFailure
    /\ StopsAtFailure

\* C23, amended: saveGradingResult never throws or rejects; every failure is
\* returned as {success: false, error}, except an error answered by the
\* breakdown insert, which is returned as {success: true, gradeId, message:
\* "Grade created (breakdown incomplete)"}; a missing argument is answered
\* with success: false before any database or storage operation; a failed
\* student lookup, photo upload or grade insert stops the pipeline.
C23_FailuresReturnedButBreakdownError ==
    /\ sv.pc # "rejected"
    /\ SaveEnded =>
          \A i \in FailedOps :
              IF sv.ops[i] = [op |-> "insertBreakdown", outcome |-> "failed"]
              THEN /\ sv.ret.success
                   /\ sv.ret.gradeId = sv.gradeId
                   /\ sv.ret.message = "Grade created (breakdown incomplete)"
              ELSE ReturnedFailure
    /\ StopsAtFailure

\* The upload has thrown after the student was found: the exception was
\* caught and returned, and no insert was made.
C23_Witness ==
    /\ sv.pc = "returned"
    /\ sv.ops = <<[op |-> "lookup", outcome |-> "answered"],
                  [op |-> "upload", outcome |-> "threw"]>>
    /\ ~sv.ret.success
    /\ sv.ret.error = "Failed to fetch"

\* The steps of the pipeline in the order C24 gives them.
PipelineOrder == <<"lookup", "upload", "insertGrade", "insertBreakdown">>

\* The student row of the user the running call was given.
StudentsOfUser == {st \in students : st.user_id = sv.userId}

\* C24: in every run of saveGradingResult the collaborator calls are made in
\* the order student lookup, photo upload, grade insert, breakdown insert;
\* the grade insert is made only after a student id was found, the breakdown
\* insert only after the grade insert returned a row; an inserted breakdown
\* row references the grade row this call inserted (the newest one, holding
\* this call's photo), whose student_id is the id found for the given user.
C24_StepOrder ==
    /\ Len(sv.ops) <= 4
    /\ \A i \in 1..Len(sv.ops) :
          /\ sv.ops[i].op = PipelineOrder[i]
          /\ sv.ops[i].op = "insertGrade" =>
                /\ sv.ops[1] = [op |-> "lookup", outcome |-> "answered"]
                /\ \E st \in StudentsOfUser : st.id = sv.studentId
          /\ sv.ops[i].op = "insertBreakdown" =>
                /\ sv.ops[i - 1] = [op |-> "insertGrade", outcome |-> "answered"]
                /\ Len(grades) >= 1
                /\ grades[Len(grades)].photo_url = sv.photoUrl
          /\ sv.ops[i] = [op |-> "insertBreakdown", outcome |-> "answered"] =>
                /\ grading_breakdown[Len(grading_breakdown)].grade_id = grades[Len(grades)].id
                /\ grades[Len(grades)].user_id = sv.userId
                /\ \E st \in StudentsOfUser : st.id = grades[Len(grades)].student_id

\* A second save has run all four steps: its breakdown row references the
\* second grade row.
C24_Witness ==
    /\ sv.pc = "returned"
    /\ Len(sv.ops) = 4
    /\ sv.ops[4] = [op |-> "insertBreakdown", outcome |-> "answered"]
    /\ Len(grades) = 2
    /\ grading_breakdown[Len(grading_breakdown)].grade_id = 2
    /\ sv.ret.gradeId = 2

\* The running call has stored its photo; the object name is this call's own.
UploadedByCall ==
    Len(sv.ops) >= 2 /\ sv.ops[2] = [op |-> "upload", outcome |-> "answered"]

\* The grade rows the running call has left: those holding its photo.
GradesOfCall ==
    {g \in 1..Len(grades) : UploadedByCall /\ grades[g].photo_url = sv.photoUrl}

\* C25: a call of saveGradingResult that returns success: false has left no
\* grade row and no breakdown row in the store, also when a collaborator call
\* throws instead of returning an error.
C25_FailedSavePersistsNothing ==
    sv.pc = "returned" /\ ~sv.ret.success =>
        /\ GradesOfCall = {}
        /\ \A g \in GradesOfCall : BreakdownsOf(grades[g].id) = {}

----------------------------------------------------------------------------
(* Properties of the upload and grade flow *)

HandlerRunning == ui.pc # "idle"

\* The call the running handler awaits is still to answer: the storage
\* upload, the load or error event of the preview (or its result, resolved),
\* or a step of saveGradingResult (or its return).
AwaitedWillAnswer ==
    \/ ui.pc = "uploading"
    \/ ui.pc = "analyzing" /\ (pc = "decoding" \/ promise = "resolved")
    \/ ui.pc = "saving" /\ sv.pc # "idle"

\* C26: every run of handleUploadAndGrade that starts ends with loading =
\* false and step 'result' or 'upload', never remaining in 'analyzing': a
\* running handler always awaits a call that is still to answer, and when it
\* ends loading is false and step is 'result' or 'upload'; step is 'result'
\* only after the upload, the analysis and the save of the run succeeded,
\* gradingResult carrying the id of a saved grade; a run that fails ends in
\* step 'upload' with a non-empty error.
C26_HandlerEnds ==
    /\ [](HandlerRunning => AwaitedWillAnswer)
    /\ [](~HandlerRunning => ~ui.loading /\ ui.step \in {"result", "upload"})
    /\ [](ui.step = "result" =>
             /\ ui.gradingResult.shown
             /\ ui.photoUrl \in storage
             /\ \E g \in 1..Len(grades) : grades[g].id = ui.gradingResult.gradeId)
    /\ [][HandlerRunning /\ ui'.pc = "idle" /\ ui'.step = "upload" => ui'.error # ""]_vars

\* C27: in a successful upload and grade flow the photo is stored once, and
\* the photoUrl shown with the result is the photo_url of the grade row whose
\* id is the gradeId shown.
C27_PhotoStoredOnce ==
    ui.step = "result" =>
        /\ Cardinality(storage) = ui.storedAtStart + 1
        /\ \E g \in 1..Len(grades) :
              /\ grades[g].id = ui.gradingResult.gradeId
              /\ grades[g].photo_url = ui.gradingResult.photoUrl

----------------------------------------------------------------------------
(* Properties of AuthProvider *)

\* C28: in every reachable state of AuthProvider, however the initial
\* session check, the SIGNED_IN and SIGNED_OUT events and their pending
\* profile lookups interleave, userType is null unless user is set (isStudent
\* or isAdmin implies isAuthenticated), and once a SIGNED_OUT has been handled
\* user, userType and userData are all null until the next SIGNED_IN.
C28_UserTypeImpliesUser ==
    /\ auth.userType # "" => auth.user # ""
    /\ isStudent(auth) \/ isAdmin(auth) => isAuthenticated(auth)
    /\ auth.last = "SIGNED_OUT" =>
          auth.user = "" /\ auth.userType = "" /\ auth.userData = ""

\* C29: after the provider mounts, loading becomes false, and it is false
\* whenever initAuth has ended, whichever way it ended: no session, a session
\* error, an admin profile, a student profile, no profile, a failed lookup.
C29_LoadingEnds ==
    /\ <>(~auth.loading)
    /\ [](auth.init = "finished" => ~auth.loading)
    /\ [][~auth.loading => ~auth'.loading]_vars

\* initAuth has ended for a signed-in user whose students query failed.
C29_Witness ==
    /\ auth.init = "finished"
    /\ ~auth.loading
    /\ auth.initUser # ""
    /\ auth.userType = "student"
    /\ auth.userData = ""
    /\ auth.last = "none"

\* C30: for every auth value with loading finished and every requiredRole,
\* ProtectedRoute renders the protected element exactly when
\* useProtectedRoute reports isAuthorized for the same value and role.
C30_RouteAgreesWithHook ==
    fn.stage = "hook" /\ ~fn.authValue.loading =>
        (fn.element.kind = "element" <=> fn.hook.isAuthorized)
====
